---- MODULE Spec2Model ----
(***************************************************************************)
(* A model of the NES 6502 CPU core: the status register (status.rs), the  *)
(* CPU bus with its RAM mirroring and cartridge window (bus.rs, memory.rs, *)
(* cartridge/), the stack helpers (cpu/stack.rs) and the interpreter       *)
(* (cpu/mod.rs).                                                           *)
(*                                                                         *)
(* Fallible operations return Result<_, NesError>; here every such         *)
(* operation yields an outcome "Ok" or "Err".  The Rust operators + and -  *)
(* on u8/u16 abort the program ("Panic") when the build checks arithmetic  *)
(* overflow (the dev/test profile) and wrap when it does not (the release  *)
(* profile); overflow_checks is the build's choice, fixed for a run.       *)
(***************************************************************************)
EXTENDS Integers, FiniteSets, Sequences, TLC

VARIABLES
    register_a,       \* CPU.register_a : u8
    register_x,       \* CPU.register_x : u8
    register_y,       \* CPU.register_y : u8
    status,           \* CPU.status : Status (eight booleans)
    program_counter,  \* CPU.program_counter : u16
    stack_pointer,    \* CPU.stack_pointer : u8
    cpu_ram,          \* CpuBus.cpu_ram : RAM(2048); the bytes that are not 0
    prg_rom,          \* Cartridge.prg_rom; the bytes that are not 0
    prg_rom_pages,    \* the PRG page count Cartridge::new read from the image
    overflow_checks,  \* TRUE: arithmetic overflow panics; FALSE: it wraps
    outcome,          \* how the last operation ended: "Ok", "Err" or "Panic"
    last_op,          \* the last operation run on the CPU or its bus
    last_mode,        \* the addressing mode of the opcode run last, or "None"
    steps,            \* operations run so far
    driver            \* run_with_callback: where its loop is and what it did

vars == <<register_a, register_x, register_y, status, program_counter,
          stack_pointer, cpu_ram, prg_rom, prg_rom_pages, overflow_checks,
          outcome, last_op, last_mode, steps, driver>>

------------------------------------------------------------------------------
(* Bounds of the exploration.                                              *)

\* operations (instructions, resets, host bus accesses) in one run
MaxSteps == 2

------------------------------------------------------------------------------
(* Fixed-width arithmetic.                                                 *)

U8 == 256
U16 == 65536

Byte == 0 .. 255

\* bit i of v
Bit(v, i) == (v \div (2 ^ i)) % 2

\* bitwise operators on bytes, bit by bit
AndBit(a, b, i) == Bit(a, i) * Bit(b, i)
OrBit(a, b, i) == Bit(a, i) + Bit(b, i) - Bit(a, i) * Bit(b, i)
XorBit(a, b, i) == (Bit(a, i) + Bit(b, i)) % 2

BitAnd(a, b) ==
    AndBit(a, b, 0) + 2 * AndBit(a, b, 1) + 4 * AndBit(a, b, 2)
    + 8 * AndBit(a, b, 3) + 16 * AndBit(a, b, 4) + 32 * AndBit(a, b, 5)
    + 64 * AndBit(a, b, 6) + 128 * AndBit(a, b, 7)

BitOr(a, b) ==
    OrBit(a, b, 0) + 2 * OrBit(a, b, 1) + 4 * OrBit(a, b, 2)
    + 8 * OrBit(a, b, 3) + 16 * OrBit(a, b, 4) + 32 * OrBit(a, b, 5)
    + 64 * OrBit(a, b, 6) + 128 * OrBit(a, b, 7)

BitXor(a, b) ==
    XorBit(a, b, 0) + 2 * XorBit(a, b, 1) + 4 * XorBit(a, b, 2)
    + 8 * XorBit(a, b, 3) + 16 * XorBit(a, b, 4) + 32 * XorBit(a, b, 5)
    + 64 * XorBit(a, b, 6) + 128 * XorBit(a, b, 7)

\* !v on a u8
BitNot(v) == 255 - v

\* u16::from_le_bytes([lo, hi]) and u16::to_le_bytes
FromLeBytes(lo, hi) == hi * 256 + lo
LoByte(v) == v % 256
HiByte(v) == (v \div 256) % 256

\* The Rust operators + and - at width w (256 or 65536): the wrapped value,
\* and a panic when the exact result does not fit and the build checks it.
Checked(exact, w) ==
    [outcome |-> IF exact \in 0 .. (w - 1) THEN "Ok"
                 ELSE IF overflow_checks THEN "Panic" ELSE "Ok",
     value |-> exact % w]

\* wrapping_add at width w
WrappingAdd(a, b, w) == (a + b) % w

------------------------------------------------------------------------------
(* status.rs                                                               *)

StatusNew ==
    [negative |-> FALSE, overflow |-> FALSE, ignored |-> TRUE,
     break_flag |-> FALSE, decimal |-> FALSE, interrupt |-> TRUE,
     zero |-> FALSE, carry |-> FALSE]

StatusReset(s) == StatusNew

B2N(b) == IF b THEN 1 ELSE 0

\* a mutant of get_status_byte: the shifts of Ignored and Break exchanged
get_status_byte_unused_break_swapped(s) ==
    B2N(s.negative) * 128 + B2N(s.overflow) * 64 + B2N(s.ignored) * 16
    + B2N(s.break_flag) * 32 + B2N(s.decimal) * 8 + B2N(s.interrupt) * 4
    + B2N(s.zero) * 2 + B2N(s.carry)

get_status_byte(s) ==
    B2N(s.negative) * 128 + B2N(s.overflow) * 64 + B2N(s.ignored) * 32
    + B2N(s.break_flag) * 16 + B2N(s.decimal) * 8 + B2N(s.interrupt) * 4
    + B2N(s.zero) * 2 + B2N(s.carry)

\* a mutant of set_from_byte: the masks of Zero and Carry exchanged
set_from_byte_zero_carry_swapped(s, value) ==
    [negative |-> Bit(value, 7) = 1, overflow |-> Bit(value, 6) = 1,
     ignored |-> Bit(value, 5) = 1, break_flag |-> Bit(value, 4) = 1,
     decimal |-> Bit(value, 3) = 1, interrupt |-> Bit(value, 2) = 1,
     zero |-> Bit(value, 0) = 1, carry |-> Bit(value, 1) = 1]

set_from_byte(s, value) ==
    [negative |-> Bit(value, 7) = 1, overflow |-> Bit(value, 6) = 1,
     ignored |-> Bit(value, 5) = 1, break_flag |-> Bit(value, 4) = 1,
     decimal |-> Bit(value, 3) = 1, interrupt |-> Bit(value, 2) = 1,
     zero |-> Bit(value, 1) = 1, carry |-> Bit(value, 0) = 1]

\* a mutant of set_negative_flag: bit 6 is tested instead of bit 7
set_negative_flag_from_bit_6(s, value) ==
    [s EXCEPT !.negative = (Bit(value, 6) = 1)]

set_negative_flag(s, value) == [s EXCEPT !.negative = (Bit(value, 7) = 1)]

set_zero_flag(s, value) == [s EXCEPT !.zero = (value = 0)]

\* set_zero_flag followed by set_negative_flag
SetZN(s, value) == set_negative_flag(set_zero_flag(s, value), value)

------------------------------------------------------------------------------
(* memory.rs (RAM) and cartridge/                                          *)

\* A byte vector is kept as the function of its bytes that are not 0.
VecRead(v, i) == IF i \in DOMAIN v THEN v[i] ELSE 0

VecWrite(v, i, data) ==
    LET dom == IF data = 0 THEN DOMAIN v \ {i} ELSE DOMAIN v \cup {i}
    IN [j \in dom |-> IF j = i THEN data ELSE v[j]]

\* RAM::new(2048) in CpuBus::new
CPU_RAM_SIZE == 2048

\* impl Mem for RAM: indexing past the end of storage panics
ram_read(ram, address) ==
    IF address < CPU_RAM_SIZE
    THEN [outcome |-> "Ok", value |-> VecRead(ram, address)]
    ELSE [outcome |-> "Panic", value |-> 0]

ram_write(ram, address, data) ==
    IF address < CPU_RAM_SIZE
    THEN [outcome |-> "Ok", ram |-> VecWrite(ram, address, data)]
    ELSE [outcome |-> "Panic", ram |-> ram]

PRG_ROM_PAGE_SIZE == 16384

\* Mapper::get_pgr_address for Mapper000 { mirror_bank }
mirror_bank == prg_rom_pages = 1

\* a mutant of get_pgr_address: mirror_bank is ignored
get_pgr_address_unmirrored(address) == address % 32768

get_pgr_address(address) ==
    IF mirror_bank THEN address % 16384 ELSE address % 32768

\* Cartridge::cpu_read: indexing past the end of prg_rom panics
cpu_read(address) ==
    LET mapper_address == get_pgr_address(address)
    IN IF mapper_address < prg_rom_pages * PRG_ROM_PAGE_SIZE
       THEN [outcome |-> "Ok", value |-> VecRead(prg_rom, mapper_address)]
       ELSE [outcome |-> "Panic", value |-> 0]

------------------------------------------------------------------------------
(* bus.rs                                                                  *)

CPU_RAM_START == 0
CPU_MEMORY_END == 8191
PPU_RAM_START == 8192
PPU_MEMORY_END == 16383
CARTRIDGE_ROM_START == 32768
CARTRIDGE_ROM_END == 65535

\* CpuBus::mem_read on the RAM ram
mem_read(ram, address) ==
    IF address \in CPU_RAM_START .. CPU_MEMORY_END
    THEN ram_read(ram, address % 2048)
    ELSE IF address \in PPU_RAM_START .. PPU_MEMORY_END
    THEN [outcome |-> "Err", value |-> 0]
    ELSE IF address \in CARTRIDGE_ROM_START .. CARTRIDGE_ROM_END
    THEN cpu_read(address)
    ELSE [outcome |-> "Err", value |-> 0]

\* a mutant of mem_write: the RAM address is not masked to 11 bits
mem_write_unmirrored(ram, address, data) ==
    IF address \in CPU_RAM_START .. CPU_MEMORY_END
    THEN ram_write(ram, address, data)
    ELSE [outcome |-> "Err", ram |-> ram]

\* CpuBus::mem_write on the RAM ram: the outcome and the RAM afterwards
mem_write(ram, address, data) ==
    IF address \in CPU_RAM_START .. CPU_MEMORY_END
    THEN ram_write(ram, address % 2048, data)
    ELSE IF address \in PPU_RAM_START .. PPU_MEMORY_END
    THEN [outcome |-> "Err", ram |-> ram]
    ELSE IF address \in CARTRIDGE_ROM_START .. CARTRIDGE_ROM_END
    THEN [outcome |-> "Err", ram |-> ram]
    ELSE [outcome |-> "Err", ram |-> ram]

\* u16::from_le_bytes of two bytes read, or the first error met reading them
ReadU16(lo, hi) ==
    IF lo.outcome # "Ok" THEN lo
    ELSE IF hi.outcome # "Ok" THEN hi
    ELSE [outcome |-> "Ok", value |-> FromLeBytes(lo.value, hi.value)]

\* Mem::mem_read_u16
mem_read_u16(ram, address) ==
    ReadU16(mem_read(ram, address),
            mem_read(ram, WrappingAdd(address, 1, U16)))

\* a mutant of mem_read_u16_wrapping_boundary: the high byte is read at
\* address + 1, across the page boundary
mem_read_u16_crossing_boundary(ram, address) ==
    ReadU16(mem_read(ram, address),
            mem_read(ram, WrappingAdd(address, 1, U16)))

\* Mem::mem_read_u16_wrapping_boundary
mem_read_u16_wrapping_boundary(ram, address) ==
    ReadU16(mem_read(ram, address),
            mem_read(ram,
                     IF (WrappingAdd(address, 1, U16) \div 256) = (address \div 256)
                     THEN WrappingAdd(address, 1, U16)
                     ELSE (address \div 256) * 256))

------------------------------------------------------------------------------
(* The CPU as a value: the fields of struct CPU with its bus's RAM, and    *)
(* the outcome of the operation in progress.  An operation applied to a    *)
(* CPU whose outcome is not "Ok" does nothing: the ? operator has returned *)
(* the error, or the panic is unwinding.                                   *)

Cpu ==
    [register_a |-> register_a, register_x |-> register_x,
     register_y |-> register_y, status |-> status,
     program_counter |-> program_counter, stack_pointer |-> stack_pointer,
     cpu_ram |-> cpu_ram, outcome |-> "Ok"]

Fail(c, o) == [c EXCEPT !.outcome = o]

\* CPU::new
CpuNew ==
    [register_a |-> 0, register_x |-> 0, register_y |-> 0,
     status |-> StatusNew, program_counter |-> 0, stack_pointer |-> 253,
     cpu_ram |-> <<>>, outcome |-> "Ok"]

\* a mutant of reset: the status register is left as it was
reset_keeps_status(c) ==
    LET c1 == [c EXCEPT !.register_a = 0, !.register_x = 0, !.register_y = 0,
                        !.stack_pointer = 253]
        v == mem_read_u16(c1.cpu_ram, 65532)
    IN IF v.outcome # "Ok" THEN Fail(c1, v.outcome)
       ELSE [c1 EXCEPT !.program_counter = v.value]

\* CPU::reset
reset(c) ==
    LET c1 == [c EXCEPT !.register_a = 0, !.register_x = 0, !.register_y = 0,
                        !.stack_pointer = 253, !.status = StatusReset(@)]
        v == mem_read_u16(c1.cpu_ram, 65532)
    IN IF v.outcome # "Ok" THEN Fail(c1, v.outcome)
       ELSE [c1 EXCEPT !.program_counter = v.value]

------------------------------------------------------------------------------
(* cpu/stack.rs                                                            *)

\* a mutant of get_stack_address: the two bytes in the wrong order
get_stack_address_swapped(c) == FromLeBytes(1, c.stack_pointer)

get_stack_address(c) == FromLeBytes(c.stack_pointer, 1)

push_to_stack(c, data) ==
    IF c.outcome # "Ok" THEN c
    ELSE LET w == mem_write(c.cpu_ram, get_stack_address(c), data)
             sp == Checked(c.stack_pointer - 1, U8)
         IN IF w.outcome # "Ok" THEN Fail(c, w.outcome)
            ELSE IF sp.outcome # "Ok"
            THEN Fail([c EXCEPT !.cpu_ram = w.ram], sp.outcome)
            ELSE [c EXCEPT !.cpu_ram = w.ram, !.stack_pointer = sp.value]

push_to_stack_u16(c, data) ==
    push_to_stack(push_to_stack(c, HiByte(data)), LoByte(data))

\* pull_from_stack: the CPU afterwards and the byte returned
pull_from_stack(c) ==
    IF c.outcome # "Ok" THEN [cpu |-> c, value |-> 0]
    ELSE LET sp == Checked(c.stack_pointer + 1, U8)
             c1 == [c EXCEPT !.stack_pointer = sp.value]
             r == mem_read(c1.cpu_ram, get_stack_address(c1))
         IN IF sp.outcome # "Ok"
            THEN [cpu |-> Fail(c, sp.outcome), value |-> 0]
            ELSE [cpu |-> Fail(c1, r.outcome), value |-> r.value]

pull_from_stack_u16(c) ==
    LET lo == pull_from_stack(c)
        hi == pull_from_stack(lo.cpu)
    IN [cpu |-> hi.cpu, value |-> FromLeBytes(lo.value, hi.value)]

------------------------------------------------------------------------------
(* cpu/mod.rs: operand resolution                                          *)

AddressingModes ==
    {"Immediate", "ZeroPage", "ZeroPageX", "ZeroPageY", "Absolute",
     "AbsoluteX", "AbsoluteY", "Indirect", "IndirectX", "IndirectY",
     "Implied", "Relative", "Accumulator"}

\* r with its value replaced by f[r.value] when r is Ok
OkValue(r, v) == IF r.outcome # "Ok" THEN r ELSE [outcome |-> "Ok", value |-> v]

\* a mutant of get_operand_address: the zero-page index is added in 16 bits,
\* so that ZeroPage,X and ZeroPage,Y carry into page one
OperandAddress_zero_page_index_carrying(c, mode, pc, b, w) ==
    CASE mode = "Immediate" -> [outcome |-> "Ok", value |-> pc]
      [] mode = "ZeroPage" -> b
      [] mode = "ZeroPageX" ->
            OkValue(b, WrappingAdd(b.value, c.register_x, U16))
      [] mode = "ZeroPageY" ->
            OkValue(b, WrappingAdd(b.value, c.register_y, U16))
      [] mode = "Absolute" -> w
      [] mode = "AbsoluteX" ->
            OkValue(w, WrappingAdd(w.value, c.register_x, U16))
      [] mode = "AbsoluteY" ->
            OkValue(w, WrappingAdd(w.value, c.register_y, U16))
      [] mode = "Indirect" ->
            IF w.outcome # "Ok" THEN w
            ELSE mem_read_u16_wrapping_boundary(c.cpu_ram, w.value)
      [] mode = "IndirectX" ->
            IF b.outcome # "Ok" THEN b
            ELSE mem_read_u16_wrapping_boundary(
                     c.cpu_ram, WrappingAdd(b.value, c.register_x, U8))
      [] mode = "IndirectY" ->
            IF b.outcome # "Ok" THEN b
            ELSE LET address ==
                         mem_read_u16_wrapping_boundary(c.cpu_ram, b.value)
                 IN OkValue(address,
                            WrappingAdd(address.value, c.register_y, U16))
      [] mode = "Relative" -> [outcome |-> "Ok", value |-> pc]
      [] OTHER -> [outcome |-> "Err", value |-> 0]

\* the match of get_operand_address: pc is program_counter + 1, b the byte
\* and w the word the bus reads there
OperandAddress(c, mode, pc, b, w) ==
    CASE mode = "Immediate" -> [outcome |-> "Ok", value |-> pc]
      [] mode = "ZeroPage" -> b
      [] mode = "ZeroPageX" ->
            OkValue(b, WrappingAdd(b.value, c.register_x, U8))
      [] mode = "ZeroPageY" ->
            OkValue(b, WrappingAdd(b.value, c.register_y, U8))
      [] mode = "Absolute" -> w
      [] mode = "AbsoluteX" ->
            OkValue(w, WrappingAdd(w.value, c.register_x, U16))
      [] mode = "AbsoluteY" ->
            OkValue(w, WrappingAdd(w.value, c.register_y, U16))
      [] mode = "Indirect" ->
            IF w.outcome # "Ok" THEN w
            ELSE mem_read_u16_wrapping_boundary(c.cpu_ram, w.value)
      [] mode = "IndirectX" ->
            IF b.outcome # "Ok" THEN b
            ELSE mem_read_u16_wrapping_boundary(
                     c.cpu_ram, WrappingAdd(b.value, c.register_x, U8))
      [] mode = "IndirectY" ->
            IF b.outcome # "Ok" THEN b
            ELSE LET address ==
                         mem_read_u16_wrapping_boundary(c.cpu_ram, b.value)
                 IN OkValue(address,
                            WrappingAdd(address.value, c.register_y, U16))
      [] mode = "Relative" -> [outcome |-> "Ok", value |-> pc]
      [] OTHER -> [outcome |-> "Err", value |-> 0]

\* a mutant of get_operand_address: (Indirect),Y adds Y to the zero-page
\* pointer before the pointer is read, as (Indirect,X) does with X
OperandAddressAt_indexing_pointer_by_y(c, mode, pc1) ==
    IF pc1.outcome # "Ok" THEN pc1
    ELSE OperandAddress([c EXCEPT !.register_x =
                             IF mode = "IndirectY" THEN c.register_y ELSE @],
                        IF mode = "IndirectY" THEN "IndirectX" ELSE mode,
                        pc1.value,
                        mem_read(c.cpu_ram, pc1.value),
                        mem_read_u16(c.cpu_ram, pc1.value))

\* get_operand_address once program_counter + 1 has been computed as pc1
OperandAddressAt(c, mode, pc1) ==
    IF pc1.outcome # "Ok" THEN pc1
    ELSE OperandAddress(c, mode, pc1.value,
                        mem_read(c.cpu_ram, pc1.value),
                        mem_read_u16(c.cpu_ram, pc1.value))

get_operand_address(c, mode) ==
    OperandAddressAt(c, mode, Checked(c.program_counter + 1, U16))

\* the byte the bus reads at a resolved address
ReadOperand(c, address) ==
    IF address.outcome # "Ok" THEN address
    ELSE mem_read(c.cpu_ram, address.value)

get_operand_address_value(c, mode) ==
    IF mode = "Accumulator" THEN [outcome |-> "Ok", value |-> c.register_a]
    ELSE IF mode = "Implied" THEN [outcome |-> "Err", value |-> 0]
    ELSE ReadOperand(c, get_operand_address(c, mode))

\* a mutant of apply_bytes_to_program_counter: only the operand bytes are
\* added, as if the opcode byte had been counted at the fetch
apply_bytes_counting_operand_only(c, bytes) ==
    [c EXCEPT !.program_counter = WrappingAdd(@, bytes - 1, U16)]

apply_bytes_to_program_counter(c, bytes) ==
    [c EXCEPT !.program_counter = WrappingAdd(@, bytes, U16)]

\* CPU::check_boundary_crossed: adding value to address changes its high byte
check_boundary_crossed(address, value) ==
    HiByte(WrappingAdd(address, value, U16)) # HiByte(address)

\* the count major_cycles returns for a base address it has read, or the
\* failure of that read
Cycles(address, index, base) ==
    IF address.outcome # "Ok" THEN [outcome |-> address.outcome, value |-> 0]
    ELSE [outcome |-> "Ok",
          value |-> IF check_boundary_crossed(address.value, index)
                    THEN base + 1 ELSE base]

\* CPU::major_cycles: the base address is read at program_counter itself
major_cycles(c, mode) ==
    CASE mode = "Immediate" -> [outcome |-> "Ok", value |-> 2]
      [] mode = "ZeroPage" -> [outcome |-> "Ok", value |-> 3]
      [] mode = "ZeroPageX" -> [outcome |-> "Ok", value |-> 4]
      [] mode = "Absolute" -> [outcome |-> "Ok", value |-> 4]
      [] mode = "AbsoluteX" ->
             Cycles(mem_read_u16(c.cpu_ram, c.program_counter),
                    c.register_x, 4)
      [] mode = "AbsoluteY" ->
             Cycles(mem_read_u16(c.cpu_ram, c.program_counter),
                    c.register_y, 4)
      [] mode = "IndirectX" -> [outcome |-> "Ok", value |-> 6]
      [] mode = "IndirectY" ->
             IF mem_read(c.cpu_ram, c.program_counter).outcome # "Ok"
             THEN [outcome |-> "Err", value |-> 0]
             ELSE Cycles(mem_read_u16(c.cpu_ram,
                             mem_read(c.cpu_ram, c.program_counter).value),
                         c.register_y, 5)
      [] OTHER -> [outcome |-> "Err", value |-> 0]

\* a mutant of the conversion in move_pointer_on_branch: the byte is widened
\* to u16 directly and so zero-extended
SignExtend_zero_extending(value) == value

\* i8 as u16: the sign-extended byte
SignExtend(value) == IF value >= 128 THEN value + 65280 ELSE value

move_pointer_on_branch(c, mode, bytes) ==
    LET value == get_operand_address_value(c, mode)
        unsigned_u16 == SignExtend(value.value)
        c1 == apply_bytes_to_program_counter(c, bytes)
    IN IF value.outcome # "Ok" THEN Fail(c, value.outcome)
       ELSE [c1 EXCEPT !.program_counter = WrappingAdd(@, unsigned_u16, U16)]

\* a mutant of addition_with_register_a: the carry flag is not added in
addition_without_carry_in(c, value) ==
    LET result == c.register_a + value
        lo == LoByte(result)
        hi == HiByte(result)
        overflow ==
            BitAnd(BitAnd(BitXor(c.register_a, lo), BitXor(LoByte(value), lo)),
                   128) > 0
    IN [c EXCEPT !.register_a = lo,
                 !.status = [SetZN(@, lo) EXCEPT !.carry = hi > 0,
                                                 !.overflow = overflow]]

addition_with_register_a(c, value) ==
    LET initial_carry == B2N(c.status.carry)
        result == c.register_a + value + initial_carry
        lo == LoByte(result)
        hi == HiByte(result)
        overflow ==
            BitAnd(BitAnd(BitXor(c.register_a, lo), BitXor(LoByte(value), lo)),
                   128) > 0
    IN [c EXCEPT !.register_a = lo,
                 !.status = [SetZN(@, lo) EXCEPT !.carry = hi > 0,
                                                 !.overflow = overflow]]

\* a mutant of compare_to_memory: the inverted operand is not incremented
compare_to_memory_ones_complement(c, value, mode) ==
    LET memory_value == get_operand_address_value(c, mode)
        result == WrappingAdd(BitNot(memory_value.value), value, U16)
        lo == LoByte(result)
        hi == HiByte(result)
    IN IF memory_value.outcome # "Ok" THEN Fail(c, memory_value.outcome)
       ELSE [c EXCEPT !.status = [SetZN(@, lo) EXCEPT !.carry = hi > 0]]

compare_to_memory(c, value, mode) ==
    LET memory_value == get_operand_address_value(c, mode)
        inverse_memory_value ==
            WrappingAdd(BitNot(memory_value.value), 1, U16)
        result == WrappingAdd(inverse_memory_value, value, U16)
        lo == LoByte(result)
        hi == HiByte(result)
    IN IF memory_value.outcome # "Ok" THEN Fail(c, memory_value.outcome)
       ELSE [c EXCEPT !.status = [SetZN(@, lo) EXCEPT !.carry = hi > 0]]

\* Status::set_decrement_flags and set_increment_flags: the result byte
decrement(value) == WrappingAdd(value, 255, U8)
increment(value) == WrappingAdd(value, 1, U8)

\* a mutant of plp: the pulled bit 5 is kept, only B is restored
plp_keeps_pulled_unused(c) ==
    LET break_flag == c.status.break_flag
        result == pull_from_stack(c)
        c1 == result.cpu
    IN IF c1.outcome # "Ok" THEN c1
       ELSE [c1 EXCEPT !.status =
                 [set_from_byte(@, result.value) EXCEPT
                      !.break_flag = break_flag]]

\* a mutant of plp: the pulled bit 4 is kept, only U is restored
plp_keeps_pulled_break(c) ==
    LET ignored_flag == c.status.ignored
        result == pull_from_stack(c)
        c1 == result.cpu
    IN IF c1.outcome # "Ok" THEN c1
       ELSE [c1 EXCEPT !.status =
                 [set_from_byte(@, result.value) EXCEPT
                      !.ignored = ignored_flag]]

\* CPU::plp
plp(c) ==
    LET break_flag == c.status.break_flag
        ignored_flag == c.status.ignored
        result == pull_from_stack(c)
        c1 == result.cpu
    IN IF c1.outcome # "Ok" THEN c1
       ELSE [c1 EXCEPT !.status =
                 [set_from_byte(@, result.value) EXCEPT
                      !.break_flag = break_flag, !.ignored = ignored_flag]]

\* CPU::jmp
jmp(c, mode) ==
    IF c.outcome # "Ok" THEN c
    ELSE LET address == get_operand_address(c, mode)
         IN IF address.outcome # "Ok" THEN Fail(c, address.outcome)
            ELSE [c EXCEPT !.program_counter = address.value]

------------------------------------------------------------------------------
\* opcodes.rs, get_opcode_detail: code -> <<name, bytes, cycles, address_mode>>
OpCodeRows ==
    {
     <<0, "BRK", 1, 7, "Implied">>, <<1, "ORA", 2, 6, "IndirectX">>,
     <<5, "ORA", 2, 3, "ZeroPage">>, <<6, "ASL", 2, 5, "ZeroPage">>,
     <<8, "PHP", 1, 3, "Implied">>, <<9, "ORA", 2, 2, "Immediate">>,
     <<10, "ASL", 1, 2, "Accumulator">>, <<13, "ORA", 3, 4, "Absolute">>,
     <<14, "ASL", 3, 6, "Absolute">>, <<16, "BPL", 2, 2, "Relative">>,
     <<17, "ORA", 2, 5, "IndirectY">>, <<21, "ORA", 2, 4, "ZeroPageX">>,
     <<22, "ASL", 2, 6, "ZeroPageX">>, <<24, "CLC", 1, 2, "Implied">>,
     <<25, "ORA", 3, 4, "AbsoluteY">>, <<29, "ORA", 3, 4, "AbsoluteX">>,
     <<30, "ASL", 3, 7, "AbsoluteX">>, <<32, "JSR", 3, 6, "Absolute">>,
     <<33, "AND", 2, 6, "IndirectX">>, <<36, "BIT", 2, 3, "ZeroPage">>,
     <<37, "AND", 2, 3, "ZeroPage">>, <<38, "ROL", 2, 5, "ZeroPage">>,
     <<40, "PLP", 1, 4, "Implied">>, <<41, "AND", 2, 2, "Immediate">>,
     <<42, "ROL", 1, 2, "Accumulator">>, <<44, "BIT", 3, 4, "Absolute">>,
     <<45, "AND", 3, 4, "Absolute">>, <<46, "ROL", 3, 6, "Absolute">>,
     <<48, "BMI", 2, 2, "Relative">>, <<49, "AND", 2, 5, "IndirectY">>,
     <<53, "AND", 2, 4, "ZeroPageX">>, <<54, "ROL", 2, 6, "ZeroPageX">>,
     <<56, "SEC", 1, 2, "Implied">>, <<57, "AND", 3, 4, "AbsoluteY">>,
     <<61, "AND", 3, 4, "AbsoluteX">>, <<62, "ROL", 3, 7, "AbsoluteX">>,
     <<64, "RTI", 1, 6, "Implied">>, <<65, "EOR", 2, 6, "IndirectX">>,
     <<69, "EOR", 2, 3, "ZeroPage">>, <<70, "LSR", 2, 5, "ZeroPage">>,
     <<72, "PHA", 1, 3, "Implied">>, <<73, "EOR", 2, 2, "Immediate">>,
     <<74, "LSR", 1, 2, "Accumulator">>, <<76, "JMP", 3, 3, "Absolute">>,
     <<77, "EOR", 3, 4, "Absolute">>, <<78, "LSR", 3, 6, "Absolute">>,
     <<80, "BVC", 2, 2, "Relative">>, <<81, "EOR", 2, 5, "IndirectY">>,
     <<85, "EOR", 2, 4, "ZeroPageX">>, <<86, "LSR", 2, 6, "ZeroPageX">>,
     <<88, "CLI", 1, 2, "Implied">>, <<89, "EOR", 3, 4, "AbsoluteY">>,
     <<93, "EOR", 3, 4, "AbsoluteX">>, <<94, "LSR", 3, 7, "AbsoluteX">>,
     <<96, "RTS", 1, 6, "Implied">>, <<97, "ADC", 2, 6, "IndirectX">>,
     <<101, "ADC", 2, 3, "ZeroPage">>, <<102, "ROR", 2, 5, "ZeroPage">>,
     <<104, "PLA", 1, 4, "Implied">>, <<105, "ADC", 2, 2, "Immediate">>,
     <<106, "ROR", 1, 2, "Accumulator">>, <<108, "JMP", 3, 5, "Indirect">>,
     <<109, "ADC", 3, 4, "Absolute">>, <<110, "ROR", 3, 6, "Absolute">>,
     <<112, "BVS", 2, 2, "Relative">>, <<113, "ADC", 2, 5, "IndirectY">>,
     <<117, "ADC", 2, 4, "ZeroPageX">>, <<118, "ROR", 2, 6, "ZeroPageX">>,
     <<120, "SEI", 1, 2, "Implied">>, <<121, "ADC", 3, 4, "AbsoluteY">>,
     <<125, "ADC", 3, 4, "AbsoluteX">>, <<126, "ROR", 3, 7, "AbsoluteX">>,
     <<129, "STA", 2, 6, "IndirectX">>, <<132, "STY", 2, 3, "ZeroPage">>,
     <<133, "STA", 2, 3, "ZeroPage">>, <<134, "STX", 2, 3, "ZeroPage">>,
     <<136, "DEY", 1, 2, "Implied">>, <<138, "TXA", 1, 2, "Implied">>,
     <<140, "STY", 3, 4, "Absolute">>, <<141, "STA", 3, 4, "Absolute">>,
     <<142, "STX", 3, 4, "Absolute">>, <<144, "BCC", 2, 2, "Relative">>,
     <<145, "STA", 2, 6, "IndirectY">>, <<148, "STY", 2, 4, "ZeroPageX">>,
     <<149, "STA", 2, 4, "ZeroPageX">>, <<150, "STX", 2, 4, "ZeroPageY">>,
     <<152, "TYA", 1, 2, "Implied">>, <<153, "STA", 3, 5, "AbsoluteY">>,
     <<154, "TXS", 1, 2, "Implied">>, <<157, "STA", 3, 5, "AbsoluteX">>,
     <<160, "LDY", 2, 2, "Immediate">>, <<161, "LDA", 2, 6, "IndirectX">>,
     <<162, "LDX", 2, 2, "Immediate">>, <<164, "LDY", 2, 3, "ZeroPage">>,
     <<165, "LDA", 2, 3, "ZeroPage">>, <<166, "LDX", 2, 3, "ZeroPage">>,
     <<168, "TAY", 1, 2, "Implied">>, <<169, "LDA", 2, 2, "Immediate">>,
     <<170, "TAX", 1, 2, "Implied">>, <<172, "LDY", 3, 4, "Absolute">>,
     <<173, "LDA", 3, 4, "Absolute">>, <<174, "LDX", 3, 4, "Absolute">>,
     <<176, "BCS", 2, 2, "Relative">>, <<177, "LDA", 2, 5, "IndirectY">>,
     <<180, "LDY", 2, 4, "ZeroPageX">>, <<181, "LDA", 2, 4, "ZeroPageX">>,
     <<182, "LDX", 2, 4, "ZeroPageY">>, <<184, "CLV", 1, 2, "Implied">>,
     <<185, "LDA", 3, 4, "AbsoluteY">>, <<186, "TSX", 1, 2, "Implied">>,
     <<188, "LDY", 3, 4, "AbsoluteX">>, <<189, "LDA", 3, 4, "AbsoluteX">>,
     <<190, "LDX", 3, 4, "AbsoluteY">>, <<192, "CPY", 2, 2, "Immediate">>,
     <<193, "CMP", 2, 6, "IndirectX">>, <<196, "CPY", 2, 3, "ZeroPage">>,
     <<197, "CMP", 2, 3, "ZeroPage">>, <<198, "DEC", 2, 5, "ZeroPage">>,
     <<200, "INY", 1, 2, "Implied">>, <<201, "CMP", 2, 2, "Immediate">>,
     <<202, "DEX", 1, 2, "Implied">>, <<204, "CPY", 3, 4, "Absolute">>,
     <<205, "CMP", 3, 4, "Absolute">>, <<206, "DEC", 3, 6, "Absolute">>,
     <<208, "BNE", 2, 2, "Relative">>, <<209, "CMP", 2, 5, "IndirectY">>,
     <<213, "CMP", 2, 4, "ZeroPageX">>, <<214, "DEC", 2, 6, "ZeroPageX">>,
     <<216, "CLD", 1, 2, "Implied">>, <<217, "CMP", 3, 4, "AbsoluteY">>,
     <<221, "CMP", 3, 4, "AbsoluteX">>, <<222, "DEC", 3, 7, "AbsoluteX">>,
     <<224, "CPX", 2, 2, "Immediate">>, <<225, "SBC", 2, 6, "IndirectX">>,
     <<228, "CPX", 2, 3, "ZeroPage">>, <<229, "SBC", 2, 3, "ZeroPage">>,
     <<230, "INC", 2, 5, "ZeroPage">>, <<232, "INX", 1, 2, "Implied">>,
     <<233, "SBC", 2, 2, "Immediate">>, <<234, "NOP", 1, 2, "Implied">>,
     <<236, "CPX", 3, 4, "Absolute">>, <<237, "SBC", 3, 4, "Absolute">>,
     <<238, "INC", 3, 6, "Absolute">>, <<240, "BEQ", 2, 2, "Relative">>,
     <<241, "SBC", 2, 5, "IndirectY">>, <<245, "SBC", 2, 4, "ZeroPageX">>,
     <<246, "INC", 2, 6, "ZeroPageX">>, <<248, "SED", 1, 2, "Implied">>,
     <<249, "SBC", 3, 4, "AbsoluteY">>, <<253, "SBC", 3, 4, "AbsoluteX">>,
     <<254, "INC", 3, 7, "AbsoluteX">>}

------------------------------------------------------------------------------
(* cpu/mod.rs: run_opcode, one operator for each arm of its match          *)

\* self.bus.mem_write(self.get_operand_address(mode)?, data)?
WriteOperand(c, mode, data) ==
    LET address == get_operand_address(c, mode)
        w == mem_write(c.cpu_ram, address.value, data)
    IN IF address.outcome # "Ok" THEN Fail(c, address.outcome)
       ELSE IF w.outcome # "Ok" THEN Fail(c, w.outcome)
       ELSE [c EXCEPT !.cpu_ram = w.ram]

\* the result of a shift or rotate goes to A or to the operand's address
StoreResult(c, mode, result) ==
    IF mode = "Accumulator" THEN [c EXCEPT !.register_a = result]
    ELSE WriteOperand(c, mode, result)

ADC(c, mode, bytes) ==
    LET value == get_operand_address_value(c, mode)
    IN IF value.outcome # "Ok" THEN Fail(c, value.outcome)
       ELSE apply_bytes_to_program_counter(
                addition_with_register_a(c, value.value), bytes)

AND(c, mode, bytes) ==
    LET value == get_operand_address_value(c, mode)
        result == BitAnd(c.register_a, value.value)
    IN IF value.outcome # "Ok" THEN Fail(c, value.outcome)
       ELSE apply_bytes_to_program_counter(
                [c EXCEPT !.register_a = result, !.status = SetZN(@, result)],
                bytes)

ASL(c, mode, bytes) ==
    LET value == get_operand_address_value(c, mode)
        result == value.value * 2
        lo == LoByte(result)
        hi == HiByte(result)
        c1 == StoreResult(c, mode, lo)
    IN IF value.outcome # "Ok" THEN Fail(c, value.outcome)
       ELSE IF c1.outcome # "Ok" THEN c1
       ELSE apply_bytes_to_program_counter(
                [c1 EXCEPT !.status = [SetZN(@, lo) EXCEPT !.carry = hi > 0]],
                bytes)

\* a branch: taken when the flag has the value wanted
Branch(c, mode, bytes, flag, wanted) ==
    IF flag # wanted THEN apply_bytes_to_program_counter(c, bytes)
    ELSE move_pointer_on_branch(c, mode, bytes)

BCC(c, mode, bytes) == Branch(c, mode, bytes, c.status.carry, FALSE)
BCS(c, mode, bytes) == Branch(c, mode, bytes, c.status.carry, TRUE)
BEQ(c, mode, bytes) == Branch(c, mode, bytes, c.status.zero, TRUE)
BMI(c, mode, bytes) == Branch(c, mode, bytes, c.status.negative, TRUE)
BNE(c, mode, bytes) == Branch(c, mode, bytes, c.status.zero, FALSE)
BPL(c, mode, bytes) == Branch(c, mode, bytes, c.status.negative, FALSE)
BVC(c, mode, bytes) == Branch(c, mode, bytes, c.status.overflow, FALSE)
BVS(c, mode, bytes) == Branch(c, mode, bytes, c.status.overflow, TRUE)

BIT(c, mode, bytes) ==
    LET value == get_operand_address_value(c, mode)
        and_result == BitAnd(c.register_a, value.value)
    IN IF value.outcome # "Ok" THEN Fail(c, value.outcome)
       ELSE apply_bytes_to_program_counter(
                [c EXCEPT !.status =
                     [@ EXCEPT !.negative = BitAnd(value.value, 128) > 0,
                               !.overflow = BitAnd(value.value, 64) > 0,
                               !.zero = and_result = 0]],
                bytes)

BRK(c, mode, bytes) ==
    LET ret == Checked(c.program_counter + 2, U16)
        c1 == push_to_stack_u16(c, ret.value)
        break_flag == c1.status.break_flag
        c2 == [c1 EXCEPT !.status.break_flag = TRUE]
        c3 == push_to_stack(c2, get_status_byte(c2.status))
        c4 == [c3 EXCEPT !.status.break_flag = break_flag]
        vector == mem_read_u16(c4.cpu_ram, 65534)
    IN IF ret.outcome # "Ok" THEN Fail(c, ret.outcome)
       ELSE IF c1.outcome # "Ok" THEN c1
       ELSE IF c3.outcome # "Ok" THEN c3
       ELSE IF vector.outcome # "Ok" THEN Fail(c4, vector.outcome)
       ELSE [c4 EXCEPT !.program_counter = vector.value]

CLC(c, mode, bytes) ==
    apply_bytes_to_program_counter([c EXCEPT !.status.carry = FALSE], bytes)
CLD(c, mode, bytes) ==
    apply_bytes_to_program_counter([c EXCEPT !.status.decimal = FALSE], bytes)
CLI(c, mode, bytes) ==
    apply_bytes_to_program_counter([c EXCEPT !.status.interrupt = FALSE], bytes)
CLV(c, mode, bytes) ==
    apply_bytes_to_program_counter([c EXCEPT !.status.overflow = FALSE], bytes)

\* CMP, CPX and CPY: compare_to_memory with the register's value
Compare(c, mode, bytes, register) ==
    LET c1 == compare_to_memory(c, register, mode)
    IN IF c1.outcome # "Ok" THEN c1
       ELSE apply_bytes_to_program_counter(c1, bytes)

CMP(c, mode, bytes) == Compare(c, mode, bytes, c.register_a)
CPX(c, mode, bytes) == Compare(c, mode, bytes, c.register_x)
CPY(c, mode, bytes) == Compare(c, mode, bytes, c.register_y)

\* DEC and INC: the flags are set before the operand is written back
ReadModifyWrite(c, mode, bytes, result) ==
    LET c1 == [c EXCEPT !.status = SetZN(@, result)]
        c2 == WriteOperand(c1, mode, result)
    IN IF c2.outcome # "Ok" THEN c2
       ELSE apply_bytes_to_program_counter(c2, bytes)

DEC(c, mode, bytes) ==
    LET value == get_operand_address_value(c, mode)
    IN IF value.outcome # "Ok" THEN Fail(c, value.outcome)
       ELSE ReadModifyWrite(c, mode, bytes, decrement(value.value))

INC(c, mode, bytes) ==
    LET value == get_operand_address_value(c, mode)
    IN IF value.outcome # "Ok" THEN Fail(c, value.outcome)
       ELSE ReadModifyWrite(c, mode, bytes, increment(value.value))

DEX(c, mode, bytes) ==
    LET result == decrement(c.register_x)
    IN apply_bytes_to_program_counter(
           [c EXCEPT !.register_x = result, !.status = SetZN(@, result)], bytes)

DEY(c, mode, bytes) ==
    LET result == decrement(c.register_y)
    IN apply_bytes_to_program_counter(
           [c EXCEPT !.register_y = result, !.status = SetZN(@, result)], bytes)

INX(c, mode, bytes) ==
    LET result == increment(c.register_x)
    IN apply_bytes_to_program_counter(
           [c EXCEPT !.register_x = result, !.status = SetZN(@, result)], bytes)

INY(c, mode, bytes) ==
    LET result == increment(c.register_y)
    IN apply_bytes_to_program_counter(
           [c EXCEPT !.register_y = result, !.status = SetZN(@, result)], bytes)

EOR(c, mode, bytes) ==
    LET value == get_operand_address_value(c, mode)
        result == BitXor(c.register_a, value.value)
    IN IF value.outcome # "Ok" THEN Fail(c, value.outcome)
       ELSE apply_bytes_to_program_counter(
                [c EXCEPT !.register_a = result, !.status = SetZN(@, result)],
                bytes)

JMP(c, mode, bytes) == jmp(c, mode)

JSR(c, mode, bytes) ==
    jmp(push_to_stack_u16(c, WrappingAdd(c.program_counter, 2, U16)), mode)

LDA(c, mode, bytes) ==
    LET value == get_operand_address_value(c, mode)
    IN IF value.outcome # "Ok" THEN Fail(c, value.outcome)
       ELSE apply_bytes_to_program_counter(
                [c EXCEPT !.register_a = value.value,
                          !.status = SetZN(@, value.value)], bytes)

LDX(c, mode, bytes) ==
    LET value == get_operand_address_value(c, mode)
    IN IF value.outcome # "Ok" THEN Fail(c, value.outcome)
       ELSE apply_bytes_to_program_counter(
                [c EXCEPT !.register_x = value.value,
                          !.status = SetZN(@, value.value)], bytes)

LDY(c, mode, bytes) ==
    LET value == get_operand_address_value(c, mode)
    IN IF value.outcome # "Ok" THEN Fail(c, value.outcome)
       ELSE apply_bytes_to_program_counter(
                [c EXCEPT !.register_y = value.value,
                          !.status = SetZN(@, value.value)], bytes)

LSR(c, mode, bytes) ==
    LET value == get_operand_address_value(c, mode)
        carry_flag == BitAnd(value.value, 1)
        result == value.value \div 2
        c1 == StoreResult(c, mode, result)
    IN IF value.outcome # "Ok" THEN Fail(c, value.outcome)
       ELSE IF c1.outcome # "Ok" THEN c1
       ELSE apply_bytes_to_program_counter(
                [c1 EXCEPT !.status =
                     [set_zero_flag(@, result) EXCEPT
                          !.negative = FALSE, !.carry = carry_flag > 0]],
                bytes)

NOP(c, mode, bytes) == apply_bytes_to_program_counter(c, bytes)

ORA(c, mode, bytes) ==
    LET value == get_operand_address_value(c, mode)
        result == BitOr(c.register_a, value.value)
    IN IF value.outcome # "Ok" THEN Fail(c, value.outcome)
       ELSE apply_bytes_to_program_counter(
                [c EXCEPT !.register_a = result, !.status = SetZN(@, result)],
                bytes)

PHA(c, mode, bytes) ==
    LET c1 == push_to_stack(c, c.register_a)
    IN IF c1.outcome # "Ok" THEN c1
       ELSE apply_bytes_to_program_counter(c1, bytes)

\* a mutant of PHP: the status byte is pushed as it is, B not forced to 1
PHP_pushes_plain_status(c, mode, bytes) ==
    LET c2 == push_to_stack(c, get_status_byte(c.status))
    IN IF c2.outcome # "Ok" THEN c2
       ELSE apply_bytes_to_program_counter(c2, bytes)

PHP(c, mode, bytes) ==
    LET break_flag == c.status.break_flag
        ignored_flag == c.status.ignored
        c1 == [c EXCEPT !.status.break_flag = TRUE, !.status.ignored = TRUE]
        c2 == push_to_stack(c1, get_status_byte(c1.status))
        c3 == [c2 EXCEPT !.status.break_flag = break_flag,
                         !.status.ignored = ignored_flag]
    IN IF c2.outcome # "Ok" THEN c2
       ELSE apply_bytes_to_program_counter(c3, bytes)

PLA(c, mode, bytes) ==
    LET result == pull_from_stack(c)
        c1 == result.cpu
    IN IF c1.outcome # "Ok" THEN c1
       ELSE apply_bytes_to_program_counter(
                [c1 EXCEPT !.register_a = result.value,
                           !.status = SetZN(@, result.value)], bytes)

PLP(c, mode, bytes) ==
    LET c1 == plp(c)
    IN IF c1.outcome # "Ok" THEN c1
       ELSE apply_bytes_to_program_counter(c1, bytes)

ROL(c, mode, bytes) ==
    LET value == get_operand_address_value(c, mode)
        carry_flag == BitAnd(value.value, 128)
        result == BitOr(LoByte(value.value * 2), B2N(c.status.carry))
        c1 == StoreResult(c, mode, result)
    IN IF value.outcome # "Ok" THEN Fail(c, value.outcome)
       ELSE IF c1.outcome # "Ok" THEN c1
       ELSE apply_bytes_to_program_counter(
                [c1 EXCEPT !.status =
                     [SetZN(@, result) EXCEPT !.carry = carry_flag > 0]],
                bytes)

\* a mutant of ROR: the carry is not rotated into bit 7
ROR_without_carry_in(c, mode, bytes) ==
    LET value == get_operand_address_value(c, mode)
        carry_flag == BitAnd(value.value, 1)
        result == value.value \div 2
        c1 == StoreResult(c, mode, result)
    IN IF value.outcome # "Ok" THEN Fail(c, value.outcome)
       ELSE IF c1.outcome # "Ok" THEN c1
       ELSE apply_bytes_to_program_counter(
                [c1 EXCEPT !.status =
                     [SetZN(@, result) EXCEPT !.carry = carry_flag > 0]],
                bytes)

ROR(c, mode, bytes) ==
    LET value == get_operand_address_value(c, mode)
        carry_flag == BitAnd(value.value, 1)
        result == BitOr(value.value \div 2, B2N(c.status.carry) * 128)
        c1 == StoreResult(c, mode, result)
    IN IF value.outcome # "Ok" THEN Fail(c, value.outcome)
       ELSE IF c1.outcome # "Ok" THEN c1
       ELSE apply_bytes_to_program_counter(
                [c1 EXCEPT !.status =
                     [SetZN(@, result) EXCEPT !.carry = carry_flag > 0]],
                bytes)

\* a mutant of RTI: the pulled address is adjusted by one, as RTS does
RTI_adjusting_pulled_address(c, mode, bytes) ==
    LET r == pull_from_stack_u16(plp(c))
    IN IF r.cpu.outcome # "Ok" THEN r.cpu
       ELSE [r.cpu EXCEPT !.program_counter = WrappingAdd(r.value, 1, U16)]

RTI(c, mode, bytes) ==
    LET r == pull_from_stack_u16(plp(c))
    IN IF r.cpu.outcome # "Ok" THEN r.cpu
       ELSE [r.cpu EXCEPT !.program_counter = r.value]

\* a mutant of RTS: execution resumes at the pulled address itself
RTS_resuming_at_pulled_address(c, mode, bytes) ==
    LET r == pull_from_stack_u16(c)
    IN IF r.cpu.outcome # "Ok" THEN r.cpu
       ELSE [r.cpu EXCEPT !.program_counter = r.value]

RTS(c, mode, bytes) ==
    LET r == pull_from_stack_u16(c)
        pc == Checked(r.value + 1, U16)
    IN IF r.cpu.outcome # "Ok" THEN r.cpu
       ELSE IF pc.outcome # "Ok" THEN Fail(r.cpu, pc.outcome)
       ELSE [r.cpu EXCEPT !.program_counter = pc.value]

\* a mutant of SBC: the operand is negated (two's complement), not inverted
SBC_negates_operand(c, mode, bytes) ==
    LET value == get_operand_address_value(c, mode)
    IN IF value.outcome # "Ok" THEN Fail(c, value.outcome)
       ELSE apply_bytes_to_program_counter(
                addition_with_register_a(c, (256 - value.value) % 256), bytes)

SBC(c, mode, bytes) ==
    LET value == get_operand_address_value(c, mode)
    IN IF value.outcome # "Ok" THEN Fail(c, value.outcome)
       ELSE apply_bytes_to_program_counter(
                addition_with_register_a(c, BitNot(value.value)), bytes)

SEC(c, mode, bytes) ==
    apply_bytes_to_program_counter([c EXCEPT !.status.carry = TRUE], bytes)
SED(c, mode, bytes) ==
    apply_bytes_to_program_counter([c EXCEPT !.status.decimal = TRUE], bytes)
SEI(c, mode, bytes) ==
    apply_bytes_to_program_counter([c EXCEPT !.status.interrupt = TRUE], bytes)

STA(c, mode, bytes) ==
    LET c1 == WriteOperand(c, mode, c.register_a)
    IN IF c1.outcome # "Ok" THEN c1
       ELSE apply_bytes_to_program_counter(c1, bytes)

STX(c, mode, bytes) ==
    LET c1 == WriteOperand(c, mode, c.register_x)
    IN IF c1.outcome # "Ok" THEN c1
       ELSE apply_bytes_to_program_counter(c1, bytes)

STY(c, mode, bytes) ==
    LET c1 == WriteOperand(c, mode, c.register_y)
    IN IF c1.outcome # "Ok" THEN c1
       ELSE apply_bytes_to_program_counter(c1, bytes)

TAX(c, mode, bytes) ==
    apply_bytes_to_program_counter(
        [c EXCEPT !.register_x = c.register_a,
                  !.status = SetZN(@, c.register_a)], bytes)

TAY(c, mode, bytes) ==
    apply_bytes_to_program_counter(
        [c EXCEPT !.register_y = c.register_a,
                  !.status = SetZN(@, c.register_a)], bytes)

TSX(c, mode, bytes) ==
    apply_bytes_to_program_counter(
        [c EXCEPT !.register_x = c.stack_pointer,
                  !.status = SetZN(@, c.stack_pointer)], bytes)

TXA(c, mode, bytes) ==
    apply_bytes_to_program_counter(
        [c EXCEPT !.register_a = c.register_x,
                  !.status = SetZN(@, c.register_x)], bytes)

\* a mutant of TXS: Z and N are set from the byte transferred
TXS_setting_flags(c, mode, bytes) ==
    apply_bytes_to_program_counter(
        [c EXCEPT !.stack_pointer = c.register_x,
                  !.status = SetZN(@, c.register_x)], bytes)

TXS(c, mode, bytes) ==
    apply_bytes_to_program_counter(
        [c EXCEPT !.stack_pointer = c.register_x], bytes)

TYA(c, mode, bytes) ==
    apply_bytes_to_program_counter(
        [c EXCEPT !.register_a = c.register_y,
                  !.status = SetZN(@, c.register_y)], bytes)

Instructions ==
    {
     "ADC", "AND", "ASL", "BCC", "BCS", "BEQ", "BIT", "BMI", "BNE", "BPL",
     "BRK", "BVC", "BVS", "CLC", "CLD", "CLI", "CLV", "CMP", "CPX", "CPY",
     "DEC", "DEX", "DEY", "EOR", "INC", "INX", "INY", "JMP", "JSR", "LDA",
     "LDX", "LDY", "LSR", "NOP", "ORA", "PHA", "PHP", "PLA", "PLP", "ROL",
     "ROR", "RTI", "RTS", "SBC", "SEC", "SED", "SEI", "STA", "STX", "STY",
     "TAX", "TAY", "TSX", "TXA", "TXS", "TYA"}

\* CPU::run_opcode: the match on opcode.instruction
run_opcode(c, instruction, mode, bytes) ==
    CASE instruction = "ADC" -> ADC(c, mode, bytes)
      [] instruction = "AND" -> AND(c, mode, bytes)
      [] instruction = "ASL" -> ASL(c, mode, bytes)
      [] instruction = "BCC" -> BCC(c, mode, bytes)
      [] instruction = "BCS" -> BCS(c, mode, bytes)
      [] instruction = "BEQ" -> BEQ(c, mode, bytes)
      [] instruction = "BIT" -> BIT(c, mode, bytes)
      [] instruction = "BMI" -> BMI(c, mode, bytes)
      [] instruction = "BNE" -> BNE(c, mode, bytes)
      [] instruction = "BPL" -> BPL(c, mode, bytes)
      [] instruction = "BRK" -> BRK(c, mode, bytes)
      [] instruction = "BVC" -> BVC(c, mode, bytes)
      [] instruction = "BVS" -> BVS(c, mode, bytes)
      [] instruction = "CLC" -> CLC(c, mode, bytes)
      [] instruction = "CLD" -> CLD(c, mode, bytes)
      [] instruction = "CLI" -> CLI(c, mode, bytes)
      [] instruction = "CLV" -> CLV(c, mode, bytes)
      [] instruction = "CMP" -> CMP(c, mode, bytes)
      [] instruction = "CPX" -> CPX(c, mode, bytes)
      [] instruction = "CPY" -> CPY(c, mode, bytes)
      [] instruction = "DEC" -> DEC(c, mode, bytes)
      [] instruction = "DEX" -> DEX(c, mode, bytes)
      [] instruction = "DEY" -> DEY(c, mode, bytes)
      [] instruction = "EOR" -> EOR(c, mode, bytes)
      [] instruction = "INC" -> INC(c, mode, bytes)
      [] instruction = "INX" -> INX(c, mode, bytes)
      [] instruction = "INY" -> INY(c, mode, bytes)
      [] instruction = "JMP" -> JMP(c, mode, bytes)
      [] instruction = "JSR" -> JSR(c, mode, bytes)
      [] instruction = "LDA" -> LDA(c, mode, bytes)
      [] instruction = "LDX" -> LDX(c, mode, bytes)
      [] instruction = "LDY" -> LDY(c, mode, bytes)
      [] instruction = "LSR" -> LSR(c, mode, bytes)
      [] instruction = "NOP" -> NOP(c, mode, bytes)
      [] instruction = "ORA" -> ORA(c, mode, bytes)
      [] instruction = "PHA" -> PHA(c, mode, bytes)
      [] instruction = "PHP" -> PHP(c, mode, bytes)
      [] instruction = "PLA" -> PLA(c, mode, bytes)
      [] instruction = "PLP" -> PLP(c, mode, bytes)
      [] instruction = "ROL" -> ROL(c, mode, bytes)
      [] instruction = "ROR" -> ROR(c, mode, bytes)
      [] instruction = "RTI" -> RTI(c, mode, bytes)
      [] instruction = "RTS" -> RTS(c, mode, bytes)
      [] instruction = "SBC" -> SBC(c, mode, bytes)
      [] instruction = "SEC" -> SEC(c, mode, bytes)
      [] instruction = "SED" -> SED(c, mode, bytes)
      [] instruction = "SEI" -> SEI(c, mode, bytes)
      [] instruction = "STA" -> STA(c, mode, bytes)
      [] instruction = "STX" -> STX(c, mode, bytes)
      [] instruction = "STY" -> STY(c, mode, bytes)
      [] instruction = "TAX" -> TAX(c, mode, bytes)
      [] instruction = "TAY" -> TAY(c, mode, bytes)
      [] instruction = "TSX" -> TSX(c, mode, bytes)
      [] instruction = "TXA" -> TXA(c, mode, bytes)
      [] instruction = "TXS" -> TXS(c, mode, bytes)
      [] instruction = "TYA" -> TYA(c, mode, bytes)

------------------------------------------------------------------------------
(* cpu/trace.rs: cpu_opcode_assembly_string.  Each operator is the number  *)
(* one arm of its match formats into the trace line, for the instruction   *)
(* at the program counter of c.                                            *)

\* the number shown for the operand byte at program_counter + 1, or the
\* failure of reading that byte
Shown(pc1, operand, number) ==
    IF pc1.outcome # "Ok" THEN pc1
    ELSE IF operand.outcome # "Ok" THEN operand
    ELSE number

\* AddressingMode::Relative: program_counter + 2 + offset, the offset being
\* the operand byte `as u16`
cpu_opcode_assembly_relative(c) ==
    Shown(Checked(c.program_counter + 1, U16),
          mem_read(c.cpu_ram, (c.program_counter + 1) % U16),
          Checked(c.program_counter + 2
                    + mem_read(c.cpu_ram, (c.program_counter + 1) % U16).value,
                  U16))

\* AddressingMode::IndirectX: the number after '@' is the operand byte
cpu_opcode_assembly_indirect_x(c) ==
    Shown(Checked(c.program_counter + 1, U16),
          mem_read(c.cpu_ram, (c.program_counter + 1) % U16),
          mem_read(c.cpu_ram, (c.program_counter + 1) % U16))

\* AddressingMode::IndirectY: the number after '=' is mem_read_u16 of the
\* operand byte
cpu_opcode_assembly_indirect_y(c) ==
    Shown(Checked(c.program_counter + 1, U16),
          mem_read(c.cpu_ram, (c.program_counter + 1) % U16),
          mem_read_u16(c.cpu_ram,
              mem_read(c.cpu_ram, (c.program_counter + 1) % U16).value))

------------------------------------------------------------------------------
(* cpu/mod.rs: run_with_callback.  The loop reads the byte at the program  *)
(* counter and decodes it, returns Ok when it is BRK, calls the callback   *)
(* and runs the opcode; an error of the read, of the decoding or of the    *)
(* opcode is returned by the ? operator.  The variable driver holds:       *)
(*   at        where the loop is: "idle" (not called), "fetch", "callback",*)
(*             "run", or "ended"                                           *)
(*   result    what the call returned, once ended: "Ok", "Err" or "Panic"  *)
(*   error     what failed: "read", "decode", "run", or "None"             *)
(*   opcode    the row of the opcode table decoded last                    *)
(*   fetched   the program counters at which the loop has read a byte      *)
(*   observed  what the callback has seen at each of its calls             *)
(*   executed  the CPU at each call of run_opcode                          *)
(*   stop      the callback's own flag: its caller wants the loop stopped  *)

DriverIdle ==
    [at |-> "idle", result |-> "None", error |-> "None", opcode |-> <<>>,
     fetched |-> <<>>, observed |-> <<>>, executed |-> <<>>, stop |-> FALSE]

\* OpCode::from_code followed by OpCodeDetail::from_opcode: the row of the
\* opcode table with this code; a byte that is no opcode is an error
from_code(code) ==
    IF \E row \in OpCodeRows : row[1] = code
    THEN [outcome |-> "Ok",
          opcode |-> CHOOSE row \in OpCodeRows : row[1] = code]
    ELSE [outcome |-> "Err", opcode |-> <<>>]

\* the call has ended with this result
Ended(d, result, error) ==
    [d EXCEPT !.at = "ended", !.result = result, !.error = error]

\* a mutant of the loop's head: BRK is handed to the callback and run like
\* any other opcode
fetch_without_break(d, code, decoded) ==
    IF code.outcome # "Ok" THEN Ended(d, code.outcome, "read")
    ELSE IF decoded.outcome # "Ok" THEN Ended(d, decoded.outcome, "decode")
    ELSE [d EXCEPT !.at = "callback", !.opcode = decoded.opcode]

\* the head of the loop, code being what the bus read at the program
\* counter and decoded what from_code made of it
fetch(d, code, decoded) ==
    IF code.outcome # "Ok" THEN Ended(d, code.outcome, "read")
    ELSE IF decoded.outcome # "Ok" THEN Ended(d, decoded.outcome, "decode")
    ELSE IF decoded.opcode[2] = "BRK" THEN Ended(d, "Ok", "None")
    ELSE [d EXCEPT !.at = "callback", !.opcode = decoded.opcode]

\* the CPU as a callback sees it through &mut CPU: its registers, and the
\* byte its bus reads at the program counter
Snapshot ==
    [program_counter |-> program_counter, register_a |-> register_a,
     register_x |-> register_x, register_y |-> register_y,
     status |-> get_status_byte(status), stack_pointer |-> stack_pointer,
     code |-> mem_read(cpu_ram, program_counter).value]

------------------------------------------------------------------------------
(* The machine: a CPU built by CPU::new over a bus with a mapper-0         *)
(* cartridge, then driven by its host, which resets it, runs opcodes of    *)
(* the table on it and writes bytes through its bus.                       *)

\* the cartridges tried: the PRG page count of the image, and the 16-bit
\* words it holds at 0xFFFC (reset) and 0xFFFE (BRK)
Cartridges ==
    {[pages |-> 1, reset_vector |-> 32768, irq_vector |-> 65535],
     [pages |-> 2, reset_vector |-> 511, irq_vector |-> 528]}

\* the addresses and bytes the host writes through the bus
HostAddresses == {1, 2, 256, 510, 511, 2049, 8191, 8192, 16416, 32768}
HostBytes == {1, 16, 32, 128, 207, 255}

\* prg_rom of a cartridge of `pages` PRG pages: zeroes, and the two vectors
\* in its last four bytes
PrgRomImage(pages, reset_vector, irq_vector) ==
    LET len == pages * PRG_ROM_PAGE_SIZE
    IN VecWrite(VecWrite(VecWrite(VecWrite(<<>>,
           len - 4, LoByte(reset_vector)), len - 3, HiByte(reset_vector)),
           len - 2, LoByte(irq_vector)), len - 1, HiByte(irq_vector))

Init ==
    /\ register_a = CpuNew.register_a
    /\ register_x = CpuNew.register_x
    /\ register_y = CpuNew.register_y
    /\ status = CpuNew.status
    /\ program_counter = CpuNew.program_counter
    /\ stack_pointer = CpuNew.stack_pointer
    /\ cpu_ram = CpuNew.cpu_ram
    /\ \E cartridge \in Cartridges :
           /\ prg_rom_pages = cartridge.pages
           /\ prg_rom = PrgRomImage(cartridge.pages, cartridge.reset_vector,
                                    cartridge.irq_vector)
    /\ overflow_checks \in BOOLEAN
    /\ outcome = "Ok"
    /\ last_op = "new"
    /\ last_mode = "None"
    /\ driver = DriverIdle
    /\ steps = 0

\* the CPU becomes c after the operation op
Becomes(c, op) ==
    /\ register_a' = c.register_a
    /\ register_x' = c.register_x
    /\ register_y' = c.register_y
    /\ status' = c.status
    /\ program_counter' = c.program_counter
    /\ stack_pointer' = c.stack_pointer
    /\ cpu_ram' = c.cpu_ram
    /\ outcome' = c.outcome
    /\ last_op' = op
    /\ steps' = steps + 1
    /\ UNCHANGED <<prg_rom, prg_rom_pages, overflow_checks>>

\* a panic ends the program
Running == outcome # "Panic" /\ steps < MaxSteps

Reset ==
    /\ Running
    /\ Becomes(reset(Cpu), "reset")
    /\ last_mode' = "None"
    /\ UNCHANGED driver

RunOpcode ==
    /\ Running
    /\ \E row \in OpCodeRows :
           /\ Becomes(run_opcode(Cpu, row[2], row[5], row[3]), row[2])
           /\ last_mode' = row[5]
           /\ UNCHANGED driver

BusWrite ==
    /\ Running
    /\ \E address \in HostAddresses, data \in HostBytes :
           LET w == mem_write(cpu_ram, address, data)
           IN Becomes([Cpu EXCEPT !.cpu_ram = w.ram, !.outcome = w.outcome],
                      "mem_write")
    /\ last_mode' = "None"
    /\ UNCHANGED driver

Next == Reset \/ RunOpcode \/ BusWrite

Spec == Init /\ [][Next]_vars

------------------------------------------------------------------------------
(* Properties.  The operations are applied to the CPU of the current state *)
(* (Cpu), so a property of an operation is checked from every state the    *)
(* machine reaches.                                                        *)

\* the instruction of the opcode table with this name, run on c; the
\* one-byte instructions have a single row
RunNamed(c, instruction) ==
    LET row == CHOOSE r \in OpCodeRows : r[2] = instruction
    IN run_opcode(c, instruction, row[5], row[3])

\* bytes and words pushed when a push is tried from a state
ProbeBytes == HostBytes \cup {0}
ProbeWords == {255, 4660, 65280, 65535}

\* the RAM index of a CPU address below 0x2000
RamIndex(address) == address % 2048

\* the byte of the RAM ram that the CPU sees at address
RamAt(ram, address) == VecRead(ram, RamIndex(address))

\* C1: in every reachable state the stack address 0x0100 | SP lies in
\* 0x0100..=0x01FF; a push writes its byte there (in RAM, nowhere else) and
\* a pull reads the byte at the stack address of the incremented SP; neither
\* returns a bus error.
C1_StackAccessInStackPage ==
    /\ get_stack_address(Cpu) \in 256 .. 511
    /\ get_stack_address(Cpu) = 256 + stack_pointer
    /\ \A b \in ProbeBytes :
           LET c == push_to_stack(Cpu, b)
           IN /\ c.outcome # "Err"
              /\ c.cpu_ram = VecWrite(cpu_ram, 256 + stack_pointer, b)
    /\ LET r == pull_from_stack(Cpu)
       IN /\ r.cpu.outcome # "Err"
          /\ r.cpu.outcome = "Ok" =>
                 /\ get_stack_address(r.cpu) \in 256 .. 511
                 /\ r.value = VecRead(cpu_ram, 256 + r.cpu.stack_pointer)
                 /\ r.cpu.cpu_ram = cpu_ram

\* C1 witness: PLA has pulled a byte the host wrote into the stack page.
C1_Witness ==
    /\ last_op = "PLA"
    /\ outcome = "Ok"
    /\ stack_pointer = 254
    /\ register_a = 207
    /\ VecRead(cpu_ram, 510) = 207

\* C2: stack-pointer arithmetic wraps and never faults: a push at SP = 0x00
\* stores the byte at 0x0100 and leaves SP = 0xFF; a pull at SP = 0xFF sets
\* SP = 0x00 and returns the byte at 0x0100.
C2_StackPointerWraps ==
    /\ (outcome # "Panic" /\ stack_pointer = 0) =>
           \A b \in ProbeBytes :
               LET c == push_to_stack(Cpu, b)
               IN /\ c.outcome = "Ok"
                  /\ c.stack_pointer = 255
                  /\ VecRead(c.cpu_ram, 256) = b
    /\ (outcome # "Panic" /\ stack_pointer = 255) =>
           LET r == pull_from_stack(Cpu)
           IN /\ r.cpu.outcome = "Ok"
              /\ r.cpu.stack_pointer = 0
              /\ r.value = VecRead(cpu_ram, 256)

\* C3: for every SP and byte b, push_to_stack(b) then pull_from_stack
\* returns b and restores SP; for every 16-bit v, push_to_stack_u16(v) then
\* pull_from_stack_u16 returns v and restores SP, the high byte sitting at
\* the higher address.
C3_PushPullRoundTrip ==
    outcome # "Panic" =>
    /\ \A b \in ProbeBytes :
           LET r == pull_from_stack(push_to_stack(Cpu, b))
           IN /\ r.cpu.outcome = "Ok"
              /\ r.value = b
              /\ r.cpu.stack_pointer = stack_pointer
    /\ \A v \in ProbeWords :
           LET c == push_to_stack_u16(Cpu, v)
               r == pull_from_stack_u16(c)
           IN /\ r.cpu.outcome = "Ok"
              /\ r.value = v
              /\ r.cpu.stack_pointer = stack_pointer
              /\ VecRead(c.cpu_ram, 256 + stack_pointer) = HiByte(v)

C5_BreakFlagNeverSet ==
    outcome # "Panic" =>
        /\ ~status.break_flag
        /\ Bit(get_status_byte(status), 4) = 0
        /\ \A i \in {"PHP", "BRK", "PLP", "RTI"} :
               LET c == RunNamed(Cpu, i)
               IN c.outcome # "Panic" => ~c.status.break_flag

\* C5 witness: PLP has pulled a byte whose bit 4 is 1.
C5_Witness ==
    /\ last_op = "PLP"
    /\ outcome = "Ok"
    /\ VecRead(cpu_ram, 256 + stack_pointer) = 255
    /\ status.negative /\ status.carry

C7_PlpLoadsFlags ==
    LET c == RunNamed(Cpu, "PLP")
        v == RamAt(cpu_ram, 256 + ((stack_pointer + 1) % 256))
    IN c.outcome = "Ok" =>
           /\ c.status.negative = (Bit(v, 7) = 1)
           /\ c.status.overflow = (Bit(v, 6) = 1)
           /\ c.status.decimal = (Bit(v, 3) = 1)
           /\ c.status.interrupt = (Bit(v, 2) = 1)
           /\ c.status.zero = (Bit(v, 1) = 1)
           /\ c.status.carry = (Bit(v, 0) = 1)
           /\ c.status.break_flag = status.break_flag
           /\ c.status.ignored = status.ignored
           /\ c.stack_pointer = (stack_pointer + 1) % 256
           /\ c.register_a = register_a
           /\ c.register_x = register_x
           /\ c.register_y = register_y

\* C7 witness: PLP has pulled 0xCF: N, V, D, I, Z and C are set, B is not.
C7_Witness ==
    /\ last_op = "PLP"
    /\ outcome = "Ok"
    /\ stack_pointer = 254
    /\ VecRead(cpu_ram, 510) = 207
    /\ get_status_byte(status) = 239

\* C8: after BRK, from any state, the interrupt-disable flag I is 1 and PC
\* is the little-endian word at 0xFFFE/0xFFFF.
C8_BrkSetsInterruptDisable ==
    (last_op = "BRK" /\ outcome = "Ok") =>
        /\ status.interrupt
        /\ program_counter = mem_read_u16(cpu_ram, 65534).value

\* the addresses in 0x0000..=0x1FFF at which mirroring is probed: the four
\* mirrors of every RAM byte that is not 0, of the ends of the RAM and of
\* the addresses the host writes
RamProbes ==
    LET base == DOMAIN cpu_ram \cup {0, 2047}
                    \cup {RamIndex(a) : a \in HostAddresses \cap (0 .. 8191)}
    IN {b + 2048 * k : b \in base, k \in 0 .. 3}

\* C9: for every a in 0x0000..=0x1FFF, after any sequence of bus writes,
\* read(a) = read(a & 0x07FF), and a write to a is read back at each of the
\* four mirrors of a.
C9_RamMirroring ==
    \A a \in RamProbes :
        /\ mem_read(cpu_ram, a).outcome = "Ok"
        /\ mem_read(cpu_ram, a) = mem_read(cpu_ram, a % 2048)
        /\ \A d \in {0, 165} :
               LET w == mem_write(cpu_ram, a, d)
               IN /\ w.outcome = "Ok"
                  /\ \A k \in 0 .. 3 :
                         mem_read(w.ram, RamIndex(a) + 2048 * k) =
                             [outcome |-> "Ok", value |-> d]

\* C9 witness: the host has written 0xCF through the bus and it reads back
\* at 0x0001, 0x0801, 0x1001 and 0x1801.
C9_Witness ==
    /\ last_op = "mem_write"
    /\ outcome = "Ok"
    /\ \A k \in 0 .. 3 : mem_read(cpu_ram, 1 + 2048 * k).value = 207

\* the addresses of the cartridge space 0x4020..=0xFFFF that are probed
CartridgeProbes ==
    {16416, 24576, 32767, 32768, 32769, 49151, 49152, 65532, 65533, 65534,
     65535}

------------------------------------------------------------------------------
(* Bus writes outside the RAM, the program counter, reset.                 *)

\* the instruction of the opcode table with this name and addressing mode,
\* run on c
RunMode(c, instruction, mode) ==
    LET row == CHOOSE r \in OpCodeRows : r[2] = instruction /\ r[5] = mode
    IN run_opcode(c, instruction, row[5], row[3])

\* the addresses of the cartridge ROM 0x8000..=0xFFFF that are written
RomWriteProbes == {32768, 32769, 49151, 49152, 65534, 65535}

\* C11: a bus write to a cartridge ROM address (0x8000..=0xFFFF) returns
\* success, so a store (STA absolute) whose operand address lies in the ROM
\* completes and advances PC by its three bytes.
C11_RomWritesAccepted ==
    /\ \A a \in RomWriteProbes, d \in ProbeBytes :
           mem_write(cpu_ram, a, d).outcome = "Ok"
    /\ LET address == get_operand_address(Cpu, "Absolute")
           c == RunMode(Cpu, "STA", "Absolute")
       IN (address.outcome = "Ok" /\ address.value >= CARTRIDGE_ROM_START) =>
              /\ c.outcome = "Ok"
              /\ c.program_counter = (program_counter + 3) % U16

\* the addresses of the PPU register window 0x2000..=0x3FFF that are written
PpuWriteProbes == {8192, 8193, 8199, 8200, 12288, 16383}

\* C12: a bus write to an address of the PPU register window 0x2000..=0x3FFF
\* returns success and changes no RAM byte (a bus write has no access to the
\* CPU's registers and flags).
C12_PpuWritesAccepted ==
    \A a \in PpuWriteProbes, d \in ProbeBytes :
        LET w == mem_write(cpu_ram, a, d)
        IN /\ w.outcome = "Ok"
           /\ w.ram = cpu_ram

\* C13: while the CPU runs, no PC computation faults and each wraps modulo
\* 2^16: operand resolution at PC = 0xFFFF yields address 0x0000, BRK at
\* PC >= 0xFFFE pushes (PC + 2) mod 2^16, RTS of a pulled 0xFFFF continues
\* at 0x0000, and the advance past an instruction wraps.
C13_ProgramCounterWraps ==
    outcome # "Panic" =>
        /\ LET address == get_operand_address(Cpu, "Immediate")
           IN address = [outcome |-> "Ok",
                         value |-> (program_counter + 1) % U16]
        /\ LET c == RunNamed(Cpu, "BRK")
               ret == (program_counter + 2) % U16
           IN stack_pointer >= 3 =>
                  /\ c.outcome = "Ok"
                  /\ RamAt(c.cpu_ram, 256 + stack_pointer) = HiByte(ret)
                  /\ RamAt(c.cpu_ram, 256 + stack_pointer - 1) = LoByte(ret)
        /\ LET r == pull_from_stack_u16(Cpu)
               c == RunNamed(Cpu, "RTS")
           IN r.cpu.outcome = "Ok" =>
                  /\ c.outcome = "Ok"
                  /\ c.program_counter = (r.value + 1) % U16
        /\ RunNamed(Cpu, "NOP").program_counter = (program_counter + 1) % U16

\* C14: reset() from any reachable state yields A = X = Y = 0, SP = 0xFD,
\* status byte 0x24 (I = 1, U = 1, every other flag 0) and PC = the
\* little-endian word at 0xFFFC/0xFFFD, and leaves the RAM as it was.
C14_ResetFromAnyState ==
    LET c == reset(Cpu)
    IN /\ c.outcome = "Ok"
       /\ c.register_a = 0 /\ c.register_x = 0 /\ c.register_y = 0
       /\ c.stack_pointer = 253
       /\ get_status_byte(c.status) = 36
       /\ c.status = [negative |-> FALSE, overflow |-> FALSE, ignored |-> TRUE,
                      break_flag |-> FALSE, decimal |-> FALSE,
                      interrupt |-> TRUE, zero |-> FALSE, carry |-> FALSE]
       /\ c.program_counter =
              FromLeBytes(mem_read(cpu_ram, 65532).value,
                          mem_read(cpu_ram, 65533).value)
       /\ c.cpu_ram = cpu_ram

\* C14 witness: reset has run after PHP pushed 0x34 at 0x01FD: SP is 0xFD
\* again, PC is the reset vector 0x01FF of the two-page cartridge and the
\* pushed byte is still in the RAM.
C14_Witness ==
    /\ last_op = "reset"
    /\ outcome = "Ok"
    /\ VecRead(cpu_ram, 509) = 52
    /\ stack_pointer = 253
    /\ program_counter = 511
    /\ get_status_byte(status) = 36

------------------------------------------------------------------------------
(* The arithmetic unit on its own: one instruction of the table run on a   *)
(* CPU whose accumulator, index registers, carry and decimal flags and     *)
(* operand byte are arbitrary.                                             *)

\* the operand bytes tried: the byte after the opcode, at address 0x0001
AluOperands == {0, 1, 64, 127, 128, 192, 255}

\* the instructions whose result depends on the registers and the operand
AluInstructions ==
    {"ADC", "SBC", "CMP", "CPX", "CPY", "AND", "ORA", "EOR", "LDA", "LDX",
     "LDY", "TAX", "TAY", "TSX", "TXA", "TYA", "PLA", "INX", "INY", "DEX",
     "DEY", "INC", "DEC", "ASL", "LSR", "ROL", "ROR"}

\* their rows of the opcode table in the modes that take the operand from
\* the byte after the opcode, from A, or from the zero page
AluRows ==
    {row \in OpCodeRows :
        /\ row[2] \in AluInstructions
        /\ row[5] \in {"Immediate", "Accumulator", "Implied", "ZeroPage"}}

AluInit ==
    /\ register_a \in Byte
    /\ register_x = (register_a + 85) % U8
    /\ register_y = (register_a + 170) % U8
    /\ \E carry \in BOOLEAN, decimal \in BOOLEAN :
           status = [StatusNew EXCEPT !.carry = carry, !.decimal = decimal]
    /\ program_counter = CpuNew.program_counter
    /\ stack_pointer = CpuNew.stack_pointer
    /\ \E operand \in AluOperands : cpu_ram = VecWrite(<<>>, 1, operand)
    /\ prg_rom_pages = 1
    /\ prg_rom = PrgRomImage(1, 32768, 65535)
    /\ overflow_checks \in BOOLEAN
    /\ outcome = "Ok"
    /\ last_op = "new"
    /\ last_mode = "None"
    /\ driver = DriverIdle
    /\ steps = 0

\* one instruction is run on the CPU as it was set up
AluRun ==
    /\ last_op = "new"
    /\ \E row \in AluRows :
           /\ Becomes(run_opcode(Cpu, row[2], row[5], row[3]), row[2])
           /\ last_mode' = row[5]
           /\ UNCHANGED driver

AluNext == AluRun

AluSpec == AluInit /\ [][AluNext]_vars

\* the operand byte the instruction run last has read, in the mode it had
OperandRead == get_operand_address_value(Cpu, last_mode').value

\* C15: ADC leaves A = (A + M + C) mod 256, C = (A + M + C > 0xFF),
\* Z = (result = 0), N = bit 7 of the result and V = 1 exactly when A and M
\* have the same sign and the result has the other one, that is
\* ((A ^ R) & (M ^ R) & 0x80) != 0; the same ADC with the decimal flag
\* flipped gives the same A, C, Z, N and V, and ADC leaves D as it was.
C15_AdcLaw ==
    [][(last_op' = "ADC" /\ outcome' = "Ok") =>
           LET m == OperandRead
               sum == register_a + m + B2N(status.carry)
               r == sum % 256
               flipped == RunMode([Cpu EXCEPT !.status.decimal = ~@], "ADC",
                                  last_mode')
           IN /\ register_a' = r
              /\ status'.carry = (sum > 255)
              /\ status'.zero = (r = 0)
              /\ status'.negative = (Bit(r, 7) = 1)
              /\ status'.overflow =
                     (Bit(register_a, 7) # Bit(r, 7) /\ Bit(m, 7) # Bit(r, 7))
              /\ status'.overflow =
                     (BitAnd(BitAnd(BitXor(register_a, r), BitXor(m, r)), 128)
                          # 0)
              /\ status'.decimal = status.decimal
              /\ flipped.register_a = register_a'
              /\ [flipped.status EXCEPT !.decimal = ~@] = status'
      ]_vars

\* C15 witness: ADC #$7F with A = 0x01 and C = 1 has given 0x81: N and V
\* set, C and Z clear, with the decimal flag set.
C15_Witness ==
    /\ last_op = "ADC"
    /\ outcome = "Ok"
    /\ VecRead(cpu_ram, 1) = 127
    /\ register_a = 129
    /\ register_x = 86
    /\ status.overflow /\ status.negative /\ status.decimal
    /\ ~status.carry /\ ~status.zero

\* C16: SBC with operand M leaves the same A and the same N, V, Z and C as
\* ADC run from the same state with the operand byte replaced by ~M & 0xFF
\* (and so A = (A - M - (1 - C)) mod 256 with C set when there is no borrow).
C16_SbcIsAdcOfComplement ==
    [][(last_op' = "SBC" /\ outcome' = "Ok") =>
           LET m == OperandRead
               address == get_operand_address(Cpu, last_mode').value
               complemented ==
                   [Cpu EXCEPT !.cpu_ram = mem_write(@, address, 255 - m).ram]
               adc == RunMode(complemented, "ADC", last_mode')
               difference == register_a - m - (1 - B2N(status.carry))
           IN get_operand_address_value(complemented, last_mode') =
                  [outcome |-> "Ok", value |-> 255 - m] =>
                  /\ adc.outcome = "Ok"
                  /\ register_a' = adc.register_a
                  /\ status'.negative = adc.status.negative
                  /\ status'.overflow = adc.status.overflow
                  /\ status'.zero = adc.status.zero
                  /\ status'.carry = adc.status.carry
                  /\ status' = adc.status
                  /\ register_a' = difference % 256
                  /\ status'.carry = (difference >= 0)
      ]_vars

\* C16 witness: SBC #$01 with A = 0x80 and C = 1 has given 0x7F with V and
\* C set, as ADC #$FE does.
C16_Witness ==
    /\ last_op = "SBC"
    /\ last_mode = "Immediate"
    /\ outcome = "Ok"
    /\ VecRead(cpu_ram, 1) = 1
    /\ register_a = 127
    /\ register_x = 213
    /\ status.overflow /\ status.carry
    /\ ~status.negative /\ ~status.zero

\* the register CMP, CPX or CPY compares with the operand
ComparedRegister ==
    CASE last_op' = "CMP" -> register_a
      [] last_op' = "CPX" -> register_x
      [] last_op' = "CPY" -> register_y

\* C17: CMP, CPX and CPY with register value r and operand M (M = 0
\* included) leave C = (r >= M), Z = (r = M) and N = bit 7 of (r - M) mod
\* 256, and change neither A, X, Y, V, the other flags nor the memory.
C17_CompareLaw ==
    [][(last_op' \in {"CMP", "CPX", "CPY"} /\ outcome' = "Ok") =>
           LET m == OperandRead
               r == ComparedRegister
           IN /\ status'.carry = (r >= m)
              /\ status'.zero = (r = m)
              /\ status'.negative = (Bit((r - m) % 256, 7) = 1)
              /\ status' = [status EXCEPT !.carry = (r >= m), !.zero = (r = m),
                                          !.negative = ((r - m) % 256 >= 128)]
              /\ register_a' = register_a
              /\ register_x' = register_x
              /\ register_y' = register_y
              /\ cpu_ram' = cpu_ram
      ]_vars

\* C17 witness: CPX #$00 with X = 0x80 has set C and N and cleared Z.
C17_Witness ==
    /\ last_op = "CPX"
    /\ outcome = "Ok"
    /\ VecRead(cpu_ram, 1) = 0
    /\ register_x = 128
    /\ status.carry /\ status.negative /\ ~status.zero

\* the instructions that write a result and set Z and N from it
ZeroNegativeInstructions ==
    {"LDA", "LDX", "LDY", "TAX", "TAY", "TSX", "TXA", "TYA", "PLA", "INX",
     "INY", "DEX", "DEY", "INC", "DEC", "AND", "ORA", "EOR", "ADC", "SBC",
     "ASL", "ROL", "ROR"}

\* the 8-bit value the instruction run last has written: the register it
\* loads, or the byte now at the address its operand resolved to
ResultWritten ==
    LET in_memory ==
            mem_read(cpu_ram', get_operand_address(Cpu, last_mode').value).value
    IN CASE last_op' \in {"LDA", "TXA", "TYA", "PLA", "AND", "ORA", "EOR",
                          "ADC", "SBC"} -> register_a'
         [] last_op' \in {"LDX", "TAX", "TSX", "INX", "DEX"} -> register_x'
         [] last_op' \in {"LDY", "TAY", "INY", "DEY"} -> register_y'
         [] last_op' \in {"INC", "DEC"} -> in_memory
         [] last_op' \in {"ASL", "ROL", "ROR"} ->
                IF last_mode' = "Accumulator" THEN register_a' ELSE in_memory

\* C18: after each instruction that writes a result to a register or to
\* memory and sets Z and N, Z = (result = 0) and N = bit 7 of the result,
\* the result being the 8-bit value written.
C18_ZeroNegativeFollowResult ==
    [][(last_op' \in ZeroNegativeInstructions /\ outcome' = "Ok") =>
           /\ status'.zero = (ResultWritten = 0)
           /\ status'.negative = (ResultWritten >= 128)
      ]_vars

\* C18 witness: DEC $FF has written 0xFF to the zero-page byte 0x00FF and
\* set N, Z staying clear.
C18_Witness ==
    /\ last_op = "DEC"
    /\ last_mode = "ZeroPage"
    /\ outcome = "Ok"
    /\ VecRead(cpu_ram, 1) = 255
    /\ VecRead(cpu_ram, 255) = 255
    /\ status.negative /\ ~status.zero

------------------------------------------------------------------------------
(* Pointers: one instruction with an indirect operand run on a CPU whose   *)
(* RAM holds a pointer at the end of a page and whose index registers are  *)
(* arbitrary.                                                              *)

\* the RAM contents tried.  The operand bytes are at 0x0001 and 0x0002.
\*   zero page: operand 0xFF; the pointer at 0x00FF has its low byte 0x34
\*     there and its high byte 0x12 at 0x0000 (0x56 is at 0x0100)
\*   absolute: operand 0x01FF; the pointer at 0x01FF has its low byte 0x34
\*     there and its high byte 0x02 at 0x0100 (0x56 is at 0x0200)
\*   inside a page: operand 0x10; the pointer at 0x0010 is 0x0234
PointerImages ==
    {(0 :> 18 @@ 1 :> 255 @@ 255 :> 52 @@ 256 :> 86 @@ 564 :> 119
        @@ 565 :> 120),
     (1 :> 255 @@ 2 :> 1 @@ 256 :> 2 @@ 511 :> 52 @@ 512 :> 86 @@ 564 :> 119),
     (1 :> 16 @@ 16 :> 52 @@ 17 :> 2 @@ 564 :> 119 @@ 565 :> 120)}

\* the values of X and of Y tried
IndexValues == {0, 1, 255}

\* the rows of the opcode table with an indirect operand
PointerRows ==
    {row \in OpCodeRows : row[5] \in {"Indirect", "IndirectX", "IndirectY"}}

PointerInit ==
    /\ register_a = CpuNew.register_a
    /\ register_x \in IndexValues
    /\ register_y \in IndexValues
    /\ status = CpuNew.status
    /\ program_counter = CpuNew.program_counter
    /\ stack_pointer = CpuNew.stack_pointer
    /\ cpu_ram \in PointerImages
    /\ prg_rom_pages = 1
    /\ prg_rom = PrgRomImage(1, 32768, 65535)
    /\ overflow_checks \in BOOLEAN
    /\ outcome = "Ok"
    /\ last_op = "new"
    /\ last_mode = "None"
    /\ driver = DriverIdle
    /\ steps = 0

\* one instruction with an indirect operand is run on the CPU as set up
PointerRun ==
    /\ last_op = "new"
    /\ \E row \in PointerRows :
           /\ Becomes(run_opcode(Cpu, row[2], row[5], row[3]), row[2])
           /\ last_mode' = row[5]
           /\ UNCHANGED driver

PointerNext == PointerRun

PointerSpec == PointerInit /\ [][PointerNext]_vars

\* the address of the high byte of a 16-bit value whose low byte is at a,
\* when the pair does not leave the page of a
PageWrapHigh(a) == (a - (a % 256)) + ((a + 1) % 256)

\* both bytes of the page-wrapping pair at a can be read
PageWrapReadable(a) ==
    /\ mem_read(cpu_ram, a).outcome = "Ok"
    /\ mem_read(cpu_ram, PageWrapHigh(a)).outcome = "Ok"

\* the 16-bit value: low byte read at a, high byte read at PageWrapHigh(a)
PageWrapRead(a) ==
    FromLeBytes(mem_read(cpu_ram, a).value,
                mem_read(cpu_ram, PageWrapHigh(a)).value)

\* the addresses at which the page-wrapping read is probed: the ends and the
\* starts of pages in the RAM, its mirrors and the ROM, two addresses the bus
\* cannot read, and every byte that is not 0
PageWrapProbes ==
    {0, 1, 16, 254, 255, 256, 510, 511, 512, 767, 2047, 2303, 8191, 8192,
     16639, 33023, 65279, 65280, 65534, 65535} \cup DOMAIN cpu_ram

\* C19: for every address a whose two bytes can be read,
\* mem_read_u16_wrapping_boundary(a) has the low byte read(a) and the high
\* byte read((a & 0xFF00) | ((a + 1) & 0x00FF)); when the low byte of a is
\* 0xFF (a = 0xFFFF included) the high byte is read at a & 0xFF00 and not
\* at a + 1.
C19_PageWrappingRead ==
    \A a \in PageWrapProbes :
        LET r == mem_read_u16_wrapping_boundary(cpu_ram, a)
        IN /\ PageWrapReadable(a) =>
                  /\ r = [outcome |-> "Ok", value |-> PageWrapRead(a)]
                  /\ LoByte(r.value) = mem_read(cpu_ram, a).value
                  /\ a % 256 = 255 =>
                         HiByte(r.value) = mem_read(cpu_ram, a - 255).value
                  /\ a % 256 # 255 =>
                         HiByte(r.value) = mem_read(cpu_ram, a + 1).value
           /\ ~PageWrapReadable(a) => r.outcome = "Err"

\* C19 witness: JMP ($01FF) has jumped to 0x0234, the high byte 0x02 taken
\* from 0x0100 while 0x0200 holds 0x56.
C19_Witness ==
    /\ last_op = "JMP"
    /\ last_mode = "Indirect"
    /\ outcome = "Ok"
    /\ VecRead(cpu_ram, 1) = 255 /\ VecRead(cpu_ram, 2) = 1
    /\ VecRead(cpu_ram, 511) = 52
    /\ VecRead(cpu_ram, 256) = 2
    /\ VecRead(cpu_ram, 512) = 86
    /\ program_counter = 564

\* the operand address resolved in this mode is v, if v's bytes are readable
ResolvesTo(mode, pointer, v) ==
    PageWrapReadable(pointer) =>
        get_operand_address(Cpu, mode) = [outcome |-> "Ok", value |-> v]

\* C20: operand resolution reads pointers with the page-wrapping read in
\* the three indirect modes: Indirect yields page_wrap_read(read_u16(PC+1)),
\* (Indirect,X) yields page_wrap_read((read(PC+1) + X) & 0xFF), (Indirect),Y
\* yields page_wrap_read(read(PC+1)) + Y modulo 2^16; a zero-page pointer at
\* 0xFF takes its high byte from 0x00.
C20_IndirectModesPageWrap ==
    LET pc == program_counter + 1
        b == mem_read(cpu_ram, pc)
        w == mem_read_u16(cpu_ram, pc)
    IN (program_counter < 65535 /\ b.outcome = "Ok" /\ w.outcome = "Ok") =>
           /\ ResolvesTo("Indirect", w.value, PageWrapRead(w.value))
           /\ ResolvesTo("IndirectX", (b.value + register_x) % 256,
                         PageWrapRead((b.value + register_x) % 256))
           /\ ResolvesTo("IndirectY", b.value,
                         (PageWrapRead(b.value) + register_y) % U16)
           /\ b.value = 255 =>
                  get_operand_address(Cpu, "IndirectY").value =
                      (FromLeBytes(VecRead(cpu_ram, 255), VecRead(cpu_ram, 0))
                           + register_y) % U16

\* C20 witness: LDA ($FF),Y with Y = 1 has loaded 0x78 from 0x1235 (RAM
\* 0x0235): the pointer at 0x00FF is 0x1234, its high byte taken from 0x0000.
C20_Witness ==
    /\ last_op = "LDA"
    /\ last_mode = "IndirectY"
    /\ outcome = "Ok"
    /\ register_y = 1
    /\ VecRead(cpu_ram, 1) = 255
    /\ VecRead(cpu_ram, 255) = 52 /\ VecRead(cpu_ram, 0) = 18
    /\ VecRead(cpu_ram, 256) = 86
    /\ register_a = 120

------------------------------------------------------------------------------
(* Indexed operands: one instruction with a ZeroPage,X / ZeroPage,Y /      *)
(* Absolute,X / Absolute,Y operand run on a CPU whose operand bytes and    *)
(* index registers make the sum cross the end of the zero page and the end *)
(* of the address space.                                                   *)

\* the RAM contents tried.  The operand bytes are at 0x0001 and 0x0002.
\*   operand 0xFF / 0xFFFF: any index but 0 wraps; 0x0000 holds 0x11,
\*     0x00FE holds 0x21, 0x0100 holds 0x31
\*   operand 0x80 / 0x0180: the index 0x80 wraps the zero page only;
\*     0x0000 holds 0x11, 0x0081 holds 0x41, 0x0200 holds 0x51
\*   operand 0x10 / 0x0010: nothing wraps; 0x0011 holds 0x61
IndexedImages ==
    {(0 :> 17 @@ 1 :> 255 @@ 2 :> 255 @@ 254 :> 33 @@ 256 :> 49),
     (0 :> 17 @@ 1 :> 128 @@ 2 :> 1 @@ 129 :> 65 @@ 512 :> 81),
     (1 :> 16 @@ 17 :> 97)}

\* the values of X and of Y tried
IndexedIndexValues == {0, 1, 128, 255}

\* the rows of the opcode table with an indexed operand
IndexedRows ==
    {row \in OpCodeRows :
         row[5] \in {"ZeroPageX", "ZeroPageY", "AbsoluteX", "AbsoluteY"}}

IndexedInit ==
    /\ register_a = CpuNew.register_a
    /\ register_x \in IndexedIndexValues
    /\ register_y \in IndexedIndexValues
    /\ status = CpuNew.status
    /\ program_counter = CpuNew.program_counter
    /\ stack_pointer = CpuNew.stack_pointer
    /\ cpu_ram \in IndexedImages
    /\ prg_rom_pages = 1
    /\ prg_rom = PrgRomImage(1, 32768, 65535)
    /\ overflow_checks \in BOOLEAN
    /\ outcome = "Ok"
    /\ last_op = "new"
    /\ last_mode = "None"
    /\ driver = DriverIdle
    /\ steps = 0

\* one instruction with an indexed operand is run on the CPU as set up
IndexedRun ==
    /\ last_op = "new"
    /\ \E row \in IndexedRows :
           /\ Becomes(run_opcode(Cpu, row[2], row[5], row[3]), row[2])
           /\ last_mode' = row[5]
           /\ UNCHANGED driver

IndexedNext == IndexedRun

IndexedSpec == IndexedInit /\ [][IndexedNext]_vars

\* the operand address resolved in this mode is v
IndexedResolvesTo(mode, v) ==
    get_operand_address(Cpu, mode) = [outcome |-> "Ok", value |-> v]

\* C21: indexed operand resolution wraps at the right width: ZeroPage,X and
\* ZeroPage,Y yield (read(PC+1) + index) & 0x00FF, always in 0x0000..0x00FF;
\* Absolute,X and Absolute,Y yield (read_u16(PC+1) + index) mod 2^16.
C21_IndexedOperandsWrap ==
    LET pc == program_counter + 1
        b == mem_read(cpu_ram, pc)
        w == mem_read_u16(cpu_ram, pc)
    IN /\ (program_counter < 65535 /\ b.outcome = "Ok") =>
              /\ IndexedResolvesTo("ZeroPageX", (b.value + register_x) % 256)
              /\ IndexedResolvesTo("ZeroPageY", (b.value + register_y) % 256)
              /\ get_operand_address(Cpu, "ZeroPageX").value \in 0..255
              /\ get_operand_address(Cpu, "ZeroPageY").value \in 0..255
       /\ (program_counter < 65535 /\ w.outcome = "Ok") =>
              /\ IndexedResolvesTo("AbsoluteX", (w.value + register_x) % 65536)
              /\ IndexedResolvesTo("AbsoluteY", (w.value + register_y) % 65536)
       /\ (last_op = "LDA" /\ outcome = "Ok" /\ VecRead(cpu_ram, 1) = 255) =>
              register_a =
                  CASE last_mode = "ZeroPageX" ->
                           VecRead(cpu_ram, (255 + register_x) % 256)
                    [] last_mode = "AbsoluteX" ->
                           mem_read(cpu_ram,
                                    (65535 + register_x) % 65536).value
                    [] OTHER ->
                           mem_read(cpu_ram,
                                    (65535 + register_y) % 65536).value

\* C21 witness: LDA $FF,X with X = 1 has loaded 0x11 from 0x0000 and not
\* 0x31 from 0x0100.
C21_Witness ==
    /\ last_op = "LDA"
    /\ last_mode = "ZeroPageX"
    /\ outcome = "Ok"
    /\ register_x = 1
    /\ VecRead(cpu_ram, 1) = 255
    /\ VecRead(cpu_ram, 0) = 17 /\ VecRead(cpu_ram, 256) = 49
    /\ register_a = 17

------------------------------------------------------------------------------
(* Branches: one branch instruction run on a CPU whose flags, program      *)
(* counter and operand byte are arbitrary.                                 *)

\* the addresses of the branch instruction tried: the operand byte is in the
\* zero page, in page one, in the last byte of the ROM, and past the end of
\* the address space
BranchAddresses == {0, 255, 65534, 65535}

\* the operand bytes tried (the one at 0xFFFF is the ROM's, 0xFF)
BranchOffsets == {0, 1, 127, 128, 254, 255}

BranchInstructions ==
    {"BCC", "BCS", "BEQ", "BMI", "BNE", "BPL", "BVC", "BVS"}

\* the rows of the opcode table of the branch instructions
BranchRows == {row \in OpCodeRows : row[2] \in BranchInstructions}

BranchInit ==
    /\ register_a = CpuNew.register_a
    /\ register_x = CpuNew.register_x
    /\ register_y = CpuNew.register_y
    /\ \E carry, zero, overflow, negative \in BOOLEAN :
           status = [CpuNew.status EXCEPT !.carry = carry, !.zero = zero,
                                          !.overflow = overflow,
                                          !.negative = negative]
    /\ program_counter \in BranchAddresses
    /\ stack_pointer = CpuNew.stack_pointer
    /\ \E offset \in BranchOffsets :
           cpu_ram = VecWrite(VecWrite(VecWrite(<<>>, 0, offset), 1, offset),
                              256, offset)
    /\ prg_rom_pages = 1
    /\ prg_rom = PrgRomImage(1, 32768, 65535)
    /\ overflow_checks \in BOOLEAN
    /\ outcome = "Ok"
    /\ last_op = "new"
    /\ last_mode = "None"
    /\ driver = DriverIdle
    /\ steps = 0

\* one branch instruction is run on the CPU as set up
BranchRun ==
    /\ last_op = "new"
    /\ \E row \in BranchRows :
           /\ Becomes(run_opcode(Cpu, row[2], row[5], row[3]), row[2])
           /\ last_mode' = row[5]
           /\ UNCHANGED driver

BranchNext == BranchRun

BranchSpec == BranchInit /\ [][BranchNext]_vars

\* the flag condition of a branch instruction, in the state before it
BranchCondition(instruction) ==
    CASE instruction = "BCC" -> ~status.carry
      [] instruction = "BCS" -> status.carry
      [] instruction = "BEQ" -> status.zero
      [] instruction = "BNE" -> ~status.zero
      [] instruction = "BMI" -> status.negative
      [] instruction = "BPL" -> ~status.negative
      [] instruction = "BVC" -> ~status.overflow
      [] instruction = "BVS" -> status.overflow

\* the operand byte as a signed 8-bit number
Signed8(o) == IF o >= 128 THEN o - 256 ELSE o

\* C22: a branch instruction at address p with operand byte o leaves
\* PC = (p + 2 + signed8(o)) mod 2^16 when its flag condition holds (so
\* o = 0xFE branches back to p) and PC = p + 2 when it does not; no
\* register, flag, SP or memory changes in either case.
C22_BranchLaw ==
    [][last_op' \in BranchInstructions =>
           LET p == program_counter
               o == mem_read(cpu_ram, (p + 1) % U16)
               taken == BranchCondition(last_op')
           IN /\ ((~taken \/ (o.outcome = "Ok" /\ p < 65535))
                     => outcome' = "Ok")
              /\ outcome' = "Ok" =>
                     /\ taken => program_counter' =
                                     (p + 2 + Signed8(o.value) + U16) % U16
                     /\ (taken /\ o.value = 254) => program_counter' = p
                     /\ ~taken => program_counter' = (p + 2) % U16
                     /\ UNCHANGED <<register_a, register_x, register_y,
                                    status, stack_pointer, cpu_ram>>
      ]_vars

\* C22 witness: BCS at 0x00FF with carry set and operand 0xFE has branched
\* back to 0x00FF.
C22_Witness ==
    /\ last_op = "BCS"
    /\ outcome = "Ok"
    /\ status.carry
    /\ VecRead(cpu_ram, 256) = 254
    /\ program_counter = 255

------------------------------------------------------------------------------
(* Subroutines and interrupts: JSR with RTS, BRK with RTI                  *)

\* C23: JSR at address p pushes p + 2, the address of its last byte, high
\* byte first; RTS executed next with the stack otherwise untouched leaves
\* PC = p + 3 and SP as before the JSR.
C23_JsrRtsRoundTrip ==
    LET p == program_counter
        ret == (p + 2) % U16
        w == mem_read_u16(cpu_ram, (p + 1) % U16)
        jsr == RunNamed(Cpu, "JSR")
        rts == RunNamed(jsr, "RTS")
    IN outcome # "Panic" =>
           /\ (p < 65533 /\ stack_pointer >= 2 /\ w.outcome = "Ok") =>
                  rts.outcome = "Ok"
           /\ jsr.outcome = "Ok" =>
                  /\ jsr.program_counter =
                         mem_read_u16(jsr.cpu_ram, (p + 1) % U16).value
                  /\ RamAt(jsr.cpu_ram, 256 + stack_pointer) = HiByte(ret)
                  /\ RamAt(jsr.cpu_ram, 256 + ((stack_pointer + 255) % 256))
                         = LoByte(ret)
                  /\ jsr.stack_pointer = (stack_pointer + 254) % 256
           /\ rts.outcome = "Ok" =>
                  /\ rts.program_counter = (p + 3) % U16
                  /\ rts.stack_pointer = stack_pointer
                  /\ rts.cpu_ram = jsr.cpu_ram

\* C23 witness: JSR at 0x0000 followed by RTS: the return address 0x0002 is
\* on the stack at 0x01FC and 0x01FD, PC = 0x0003 and SP = 0xFD again.
C23_Witness ==
    /\ last_op = "RTS"
    /\ outcome = "Ok"
    /\ steps = 2
    /\ VecRead(cpu_ram, 508) = 2
    /\ VecRead(cpu_ram, 509) = 0
    /\ program_counter = 3
    /\ stack_pointer = 253

\* the flags N, V, D, Z, C of a status register
ArithmeticFlags(s) == <<s.negative, s.overflow, s.decimal, s.zero, s.carry>>

\* the flags N, V, D, Z, C a status byte holds
ArithmeticFlagsOfByte(b) ==
    <<Bit(b, 7) = 1, Bit(b, 6) = 1, Bit(b, 3) = 1, Bit(b, 1) = 1,
      Bit(b, 0) = 1>>

\* the byte of the stack page at offset sp modulo 256
StackByte(ram, sp) == RamAt(ram, 256 + (sp % 256))

\* C24: RTI pulls the status byte first, then PC low and PC high, with no
\* +1 adjustment; BRK at address p followed directly by RTI leaves
\* PC = p + 2, SP as before the BRK and N, V, D, Z, C as before the BRK.
C24_BrkRtiRoundTrip ==
    LET p == program_counter
        brk == RunNamed(Cpu, "BRK")
        rti == RunNamed(brk, "RTI")
        alone == RunNamed(Cpu, "RTI")
    IN outcome # "Panic" =>
           /\ (p < 65534 /\ stack_pointer >= 3) => rti.outcome = "Ok"
           /\ rti.outcome = "Ok" =>
                  /\ rti.program_counter = (p + 2) % U16
                  /\ rti.stack_pointer = stack_pointer
                  /\ ArithmeticFlags(rti.status) = ArithmeticFlags(status)
           /\ alone.outcome = "Ok" =>
                  /\ ArithmeticFlags(alone.status) =
                         ArithmeticFlagsOfByte(
                             StackByte(cpu_ram, stack_pointer + 1))
                  /\ alone.program_counter =
                         FromLeBytes(StackByte(cpu_ram, stack_pointer + 2),
                                     StackByte(cpu_ram, stack_pointer + 3))
                  /\ alone.stack_pointer = (stack_pointer + 3) % 256

\* C24 witness: BRK at 0x0000 followed by RTI: the stack holds the return
\* address 0x0002 and, below it, the status byte 0x34; PC = 0x0002 and
\* SP = 0xFD again.
C24_Witness ==
    /\ last_op = "RTI"
    /\ outcome = "Ok"
    /\ steps = 2
    /\ VecRead(cpu_ram, 509) = 0
    /\ VecRead(cpu_ram, 508) = 2
    /\ VecRead(cpu_ram, 507) = 52
    /\ program_counter = 2
    /\ stack_pointer = 253

------------------------------------------------------------------------------
(* Shifts and rotates: one of ASL, LSR, ROL, ROR run in each of its modes  *)
(* on a CPU whose accumulator, carry and operand byte in memory are        *)
(* arbitrary.                                                              *)

ShiftInstructions == {"ASL", "LSR", "ROL", "ROR"}

\* the rows of the opcode table of the shifts and rotates
ShiftRows == {row \in OpCodeRows : row[2] \in ShiftInstructions}

\* the operand bytes at 0x0001 and 0x0002 are 0x10 and 0x00, so that the
\* operand of every memory mode is the byte at 0x0010 (X is 0); that byte
\* is A + 0x55 modulo 256
ShiftInit ==
    /\ register_a \in Byte
    /\ register_x = CpuNew.register_x
    /\ register_y = CpuNew.register_y
    /\ \E carry \in BOOLEAN : status = [StatusNew EXCEPT !.carry = carry]
    /\ program_counter = CpuNew.program_counter
    /\ stack_pointer = CpuNew.stack_pointer
    /\ cpu_ram = VecWrite(VecWrite(<<>>, 1, 16), 16, (register_a + 85) % U8)
    /\ prg_rom_pages = 1
    /\ prg_rom = PrgRomImage(1, 32768, 65535)
    /\ overflow_checks \in BOOLEAN
    /\ outcome = "Ok"
    /\ last_op = "new"
    /\ last_mode = "None"
    /\ driver = DriverIdle
    /\ steps = 0

\* one shift or rotate is run on the CPU as set up
ShiftRun ==
    /\ last_op = "new"
    /\ \E row \in ShiftRows :
           /\ Becomes(run_opcode(Cpu, row[2], row[5], row[3]), row[2])
           /\ last_mode' = row[5]
           /\ UNCHANGED driver

ShiftNext == ShiftRun

ShiftSpec == ShiftInit /\ [][ShiftNext]_vars

\* the result of a shift or rotate of the byte v with carry-in c
ShiftResult(instruction, v, c) ==
    CASE instruction = "ASL" -> (v * 2) % 256
      [] instruction = "LSR" -> v \div 2
      [] instruction = "ROL" -> ((v * 2) % 256) + c
      [] instruction = "ROR" -> (v \div 2) + (c * 128)

\* its carry-out: bit 7 of v for ASL and ROL, bit 0 of v for LSR and ROR
ShiftCarryOut(instruction, v) ==
    IF instruction \in {"ASL", "ROL"} THEN v >= 128 ELSE v % 2 = 1

\* what the claim C25 says of a shift or rotate of v with result r, its
\* operand being A or the byte at address
ShiftLaw(v, r, address) ==
    /\ status'.carry = ShiftCarryOut(last_op', v)
    /\ status'.zero = (r = 0)
    /\ status'.negative = (r >= 128)
    /\ last_op' = "LSR" => ~status'.negative
    /\ last_mode' = "Accumulator" =>
           /\ register_a' = r
           /\ cpu_ram' = cpu_ram
    /\ last_mode' # "Accumulator" =>
           /\ register_a' = register_a
           /\ cpu_ram' = VecWrite(cpu_ram, RamIndex(address), r)
    /\ UNCHANGED <<register_x, register_y, stack_pointer>>

\* C25: ASL, LSR, ROL and ROR of the byte v with carry-in c give
\* (v<<1)&0xFF, v>>1, ((v<<1)&0xFF)|c and (v>>1)|(c<<7); the carry-out is
\* bit 7 of v for ASL and ROL and bit 0 of v for LSR and ROR; Z and N come
\* from the result, N being 0 after LSR; in Accumulator mode only A
\* receives the result, in the memory modes the result is written to the
\* operand address and A is unchanged.
C25_ShiftRotateLaw ==
    [][(last_op' \in ShiftInstructions /\ outcome' = "Ok") =>
           ShiftLaw(OperandRead,
                    ShiftResult(last_op', OperandRead, B2N(status.carry)),
                    get_operand_address(Cpu, last_mode').value)
      ]_vars

\* C25 witness: ROR $10 with the carry set has turned the byte 0x81 at
\* 0x0010 into 0xC0 and set C and N, A staying 0x2C.
C25_Witness ==
    /\ last_op = "ROR"
    /\ last_mode = "ZeroPage"
    /\ outcome = "Ok"
    /\ VecRead(cpu_ram, 16) = 192
    /\ register_a = 44
    /\ status.carry /\ status.negative /\ ~status.zero

------------------------------------------------------------------------------
(* The driver: run_with_callback called on a CPU set up as the tests of    *)
(* cpu/trace.rs set it up (the program written to RAM at 0x0064 through    *)
(* the bus, the program counter and the registers assigned), with a        *)
(* callback that records what it sees, leaves the CPU as it is and may     *)
(* raise its caller's stop flag.                                           *)

\* the programs tried, as the bytes at 0x0064 and after
\*   LDX #$01; DEX; DEY; BRK               (test_format_trace)
\*   BRK
\*   LDA #$05; PHA; PLA; then 0x02, which is no opcode
\*   0x02, which is no opcode
\*   LDX #$02; DEX; BNE -3; BRK            (a loop run twice)
\*   JSR $0069; BRK; BRK; RTS              (the subroutine is the RTS)
\*   STA $8000; BRK                        (a write the bus refuses)
\*   JMP $2000                             (a fetch the bus refuses)
\*   LDX #$00; TXS; PHA; BRK               (a push with SP = 0x00)
DriverPrograms ==
    {<<162, 1, 202, 136, 0>>,
     <<0>>,
     <<169, 5, 72, 104, 2>>,
     <<2>>,
     <<162, 2, 202, 208, 253, 0>>,
     <<32, 105, 0, 0, 0, 96>>,
     <<141, 0, 128, 0>>,
     <<76, 0, 32>>,
     <<162, 0, 154, 72, 0>>}

\* where the tests put the program
DriverProgramStart == 100

\* the RAM after the program has been written through the bus
ProgramImage(program) ==
    [address \in {DriverProgramStart + i - 1 :
                      i \in {j \in DOMAIN program : program[j] # 0}} |->
         program[address - DriverProgramStart + 1]]

DriverInit ==
    /\ register_a = 1
    /\ register_x = 2
    /\ register_y = 3
    /\ status = CpuNew.status
    /\ program_counter = DriverProgramStart
    /\ stack_pointer = CpuNew.stack_pointer
    /\ \E program \in DriverPrograms : cpu_ram = ProgramImage(program)
    /\ prg_rom_pages = 1
    /\ prg_rom = PrgRomImage(1, 32768, 65535)
    /\ overflow_checks \in BOOLEAN
    /\ outcome = "Ok"
    /\ last_op = "new"
    /\ last_mode = "None"
    /\ steps = 0
    /\ driver = [DriverIdle EXCEPT !.at = "fetch"]

\* the driver after the head of its loop has read code at the program
\* counter
Fetched(d, code) ==
    [fetch(d, code, from_code(code.value)) EXCEPT
         !.fetched = Append(@, program_counter)]

\* the head of the loop: the read, the decoding and the test for BRK
DriverFetch ==
    /\ driver.at = "fetch"
    /\ driver' = Fetched(driver, mem_read(cpu_ram, program_counter))
    /\ UNCHANGED <<register_a, register_x, register_y, status,
                   program_counter, stack_pointer, cpu_ram, prg_rom,
                   prg_rom_pages, overflow_checks, outcome, last_op,
                   last_mode, steps>>

\* callback(self): the callback records the CPU and may raise its flag
DriverCallback ==
    /\ driver.at = "callback"
    /\ \E stop \in BOOLEAN :
           driver' = [driver EXCEPT !.at = "run",
                                    !.observed = Append(@, Snapshot),
                                    !.stop = @ \/ stop]
    /\ UNCHANGED <<register_a, register_x, register_y, status,
                   program_counter, stack_pointer, cpu_ram, prg_rom,
                   prg_rom_pages, overflow_checks, outcome, last_op,
                   last_mode, steps>>

\* the CPU and the driver after run_opcode has left the CPU as c
Ran(c) ==
    /\ Becomes(c, driver.opcode[2])
    /\ last_mode' = driver.opcode[5]
    /\ driver' =
           [(IF c.outcome = "Ok" THEN [driver EXCEPT !.at = "fetch"]
             ELSE Ended(driver, c.outcome, "run")) EXCEPT
                !.executed = Append(@, Snapshot)]

\* self.run_opcode(&opcode)?
DriverRunOpcode ==
    /\ driver.at = "run"
    /\ Ran(run_opcode(Cpu, driver.opcode[2], driver.opcode[5],
                      driver.opcode[3]))

DriverNext == DriverFetch \/ DriverCallback \/ DriverRunOpcode

DriverSpec == DriverInit /\ [][DriverNext]_vars

\* C26: the callback is invoked before the instruction at the current PC is
\* fetched and decoded, once for every PC at which the driver fetches; when
\* the byte at PC is no opcode, the callback has been invoked for that PC
\* by the time the decoding error is returned.
C26_CallbackBeforeFetch ==
    /\ \A i \in DOMAIN driver.fetched :
           /\ i \in DOMAIN driver.observed
           /\ driver.observed[i].program_counter = driver.fetched[i]
    /\ (driver.at = "ended" /\ driver.error = "decode") =>
           /\ driver.observed # <<>>
           /\ driver.observed[Len(driver.observed)].program_counter =
                  program_counter

\* C27: the callback can stop the driver: once its caller's stop flag is
\* raised, the head of the loop does not fetch: run_with_callback returns
\* Ok with the CPU as it is, whatever opcode is at PC.
C27_CallbackStopsDriver ==
    [][(driver.stop /\ driver.at = "fetch") =>
           /\ driver'.at = "ended"
           /\ driver'.result = "Ok"
           /\ driver'.fetched = driver.fetched
           /\ driver'.executed = driver.executed
           /\ UNCHANGED <<register_a, register_x, register_y, status,
                          program_counter, stack_pointer, cpu_ram>>
      ]_vars

\* C28: run_with_callback runs the instructions in program order and
\* returns Ok as soon as the byte fetched at PC decodes to BRK; the BRK is
\* not executed (PC still points at it; SP, flags and memory are unchanged);
\* the callback has been invoked exactly once for each instruction run,
\* seeing the CPU as it was before that instruction, and never for the BRK.
C28_RunUntilBrk ==
    [][/\ (driver.at = "fetch"
              /\ mem_read(cpu_ram, program_counter) =
                     [outcome |-> "Ok", value |-> 0]) =>
              (driver'.at = "ended" /\ driver'.result = "Ok")
       /\ (driver'.at = "ended" /\ driver'.result = "Ok") =>
              /\ driver.at = "fetch"
              /\ mem_read(cpu_ram', program_counter').value = 0
              /\ driver'.observed = driver.observed
              /\ driver'.executed = driver.executed
              /\ UNCHANGED <<register_a, register_x, register_y, status,
                             program_counter, stack_pointer, cpu_ram>>
       /\ driver.at = "run" =>
              /\ mem_read(cpu_ram, program_counter).outcome = "Ok"
              /\ last_op' =
                     from_code(mem_read(cpu_ram, program_counter).value)
                         .opcode[2]
              /\ driver.observed = Append(driver.executed, Snapshot)
       /\ driver'.at \in {"fetch", "ended"} =>
              driver'.observed = driver'.executed
       /\ \A i \in DOMAIN driver'.observed : driver'.observed[i].code # 0
      ]_vars

\* C28 witness: LDX #$01; DEX; DEY; BRK from 0x0064 has returned Ok with PC
\* at the BRK (0x0068), X = 0x00 and Y = 0x02, the callback having seen
\* PC = 0x0064, 0x0066 and 0x0067 with X = 0x02, 0x01 and 0x00.
C28_Witness ==
    /\ driver.at = "ended"
    /\ driver.result = "Ok"
    /\ program_counter = 104
    /\ register_x = 0 /\ register_y = 2
    /\ Len(driver.observed) = 3
    /\ driver.observed[1].program_counter = 100
    /\ driver.observed[2].program_counter = 102
    /\ driver.observed[3].program_counter = 103
    /\ driver.observed[1].register_x = 2
    /\ driver.observed[2].register_x = 1
    /\ driver.observed[3].register_x = 0
    /\ driver.observed[3].status = 38

------------------------------------------------------------------------------
(* The status register on its own: a Status built by Status::new, then     *)
(* loaded from arbitrary bytes with set_from_byte.                         *)

StatusInit ==
    /\ register_a = CpuNew.register_a
    /\ register_x = CpuNew.register_x
    /\ register_y = CpuNew.register_y
    /\ status = StatusNew
    /\ program_counter = CpuNew.program_counter
    /\ stack_pointer = CpuNew.stack_pointer
    /\ cpu_ram = CpuNew.cpu_ram
    /\ prg_rom_pages = 1
    /\ prg_rom = PrgRomImage(1, 32768, 65535)
    /\ overflow_checks \in BOOLEAN
    /\ outcome = "Ok"
    /\ last_op = "new"
    /\ last_mode = "None"
    /\ steps = 0
    /\ driver = DriverIdle

\* status.set_from_byte(value), for any byte
StatusSetFromByte ==
    /\ \E value \in Byte : status' = set_from_byte(status, value)
    /\ last_op' = "set_from_byte"
    /\ UNCHANGED <<register_a, register_x, register_y, program_counter,
                   stack_pointer, cpu_ram, prg_rom, prg_rom_pages,
                   overflow_checks, outcome, last_mode, steps, driver>>

StatusNext == StatusSetFromByte

StatusSpec == StatusInit /\ [][StatusNext]_vars

\* the flags in the order N V U B D I Z C, bit 7 first
FlagsInPackOrder(s) ==
    <<s.negative, s.overflow, s.ignored, s.break_flag, s.decimal,
      s.interrupt, s.zero, s.carry>>

------------------------------------------------------------------------------
(* The program counter after an instruction                                *)

\* the length of an instruction in bytes: the opcode and its operand
InstructionLength(mode) ==
    CASE mode \in {"Implied", "Accumulator"} -> 1
      [] mode \in {"Immediate", "ZeroPage", "ZeroPageX", "ZeroPageY",
                   "IndirectX", "IndirectY", "Relative"} -> 2
      [] mode \in {"Absolute", "AbsoluteX", "AbsoluteY", "Indirect"} -> 3

\* the instruction run in this step is a branch and its condition held
BranchTaken ==
    last_op' \in BranchInstructions /\ BranchCondition(last_op')

\* C31: every instruction other than JMP, JSR, RTS, RTI, BRK and a taken
\* branch, run at PC = p, leaves PC = (p + length_bytes) mod 2^16, where
\* length_bytes is the length of the whole instruction (1, 2 or 3); JMP and
\* JSR leave PC = the resolved operand address.
C31_ProgramCounterAdvance ==
    [][(last_op' \in Instructions /\ outcome' = "Ok") =>
           /\ (last_op' \notin {"JMP", "JSR", "RTS", "RTI", "BRK"}
                  /\ ~BranchTaken) =>
                  program_counter' =
                      (program_counter + InstructionLength(last_mode')) % U16
           /\ last_op' \in {"JMP", "JSR"} =>
                  program_counter' =
                      get_operand_address([Cpu EXCEPT !.cpu_ram = cpu_ram'],
                                          last_mode').value
      ]_vars

\* C31 witness: LDA #imm run at 0xFFFF, where the build lets PC + 1 wrap,
\* has left PC = 0x0001.
C31_Witness ==
    /\ last_op = "LDA"
    /\ last_mode = "Immediate"
    /\ outcome = "Ok"
    /\ steps = 2
    /\ program_counter = 1
    /\ stack_pointer = 250

------------------------------------------------------------------------------
(* The tracer's operand display against operand resolution                 *)

\* C32: for a branch at address p with operand byte o, the tracer shows the
\* target the branch jumps to when taken, (p + 2 + signed8(o)) mod 2^16,
\* for every o, the negative offsets 0x80..0xFF included.
C32_TraceShowsBranchTarget ==
    LET p == program_counter
        o == mem_read(cpu_ram, (p + 1) % U16)
        taken == move_pointer_on_branch(Cpu, "Relative", 2)
    IN (outcome # "Panic" /\ p < 65535 /\ o.outcome = "Ok") =>
           /\ cpu_opcode_assembly_relative(Cpu) =
                  [outcome |-> "Ok",
                   value |-> (p + 2 + Signed8(o.value) + U16) % U16]
           /\ cpu_opcode_assembly_relative(Cpu).value = taken.program_counter

\* C33: for (Indirect,X) the zero-page pointer the tracer shows after '@'
\* is (operand + X) & 0xFF, and for (Indirect),Y the base address it shows
\* is the page-wrapping 16-bit read of the operand (high byte from 0x00
\* when the operand is 0xFF): the values operand resolution uses.
C33_TraceShowsIndirectPointers ==
    LET p == program_counter
        operand == mem_read(cpu_ram, (p + 1) % U16)
    IN (outcome # "Panic" /\ p < 65535 /\ operand.outcome = "Ok") =>
           /\ cpu_opcode_assembly_indirect_x(Cpu) =
                  [outcome |-> "Ok",
                   value |-> (operand.value + register_x) % 256]
           /\ PageWrapReadable(operand.value) =>
                  /\ cpu_opcode_assembly_indirect_y(Cpu) =
                         [outcome |-> "Ok",
                          value |-> PageWrapRead(operand.value)]
                  /\ (cpu_opcode_assembly_indirect_y(Cpu).value
                         + register_y) % U16
                         = get_operand_address(Cpu, "IndirectY").value

------------------------------------------------------------------------------
(* Errors and the state they leave                                         *)

\* C34: whenever run_opcode returns an error, A, X, Y, every flag, SP, PC
\* and the RAM are exactly as they were before the instruction.
C34_ErrorLeavesStateUnchanged ==
    [][(last_op' \in Instructions /\ outcome' = "Err") =>
           UNCHANGED <<register_a, register_x, register_y, status,
                       stack_pointer, program_counter, cpu_ram>>]_vars

------------------------------------------------------------------------------
(* TXS                                                                     *)

\* C35: TXS copies X into SP and changes nothing else except PC: all eight
\* flags (Z and N in particular), A, X, Y and the memory are as before, for
\* every value of X, 0x00 and the values with bit 7 set included.
C35_TxsChangesOnlyStackPointer ==
    [][last_op' = "TXS" =>
           /\ outcome' = "Ok"
           /\ stack_pointer' = register_x
           /\ program_counter' = (program_counter + 1) % U16
           /\ UNCHANGED <<register_a, register_x, register_y, status,
                          cpu_ram>>]_vars

\* C35 witness: TSX has loaded X with 0xFD and set N; TXS then ran: SP is
\* 0xFD and the flags are those TSX left.
C35_Witness ==
    /\ last_op = "TXS" /\ outcome = "Ok" /\ steps = 2
    /\ register_x = 253 /\ stack_pointer = 253
    /\ status.negative /\ ~status.zero
    /\ program_counter = 2

------------------------------------------------------------------------------
(* Cartridge::new and the mapper it builds                                 *)

\* C37: Cartridge::new applied to a mapper-0 iNES image that declares two
\* 16 KiB PRG pages produces Mapper000 with mirror_bank = true.
C37_TwoPagesMirrorBank == prg_rom_pages = 2 => mirror_bank

------------------------------------------------------------------------------
(* major_cycles against operand resolution                                 *)

\* the cycle count of the three indexed modes when no page is crossed
BaseCycles(mode) == IF mode = "IndirectY" THEN 5 ELSE 4

\* the address get_operand_address resolves with the index register at 0
UnindexedBase(mode) ==
    get_operand_address([Cpu EXCEPT !.register_x = 0, !.register_y = 0], mode)

\* C38: for an Absolute,X, Absolute,Y or (Indirect),Y instruction at the
\* program counter, major_cycles returns the base count plus 1 exactly when
\* the effective address get_operand_address computes for that instruction
\* lies on a different page than its un-indexed base, and the base count
\* otherwise.
C38_PageCrossCycles ==
    \A mode \in {"AbsoluteX", "AbsoluteY", "IndirectY"} :
        (/\ outcome # "Panic"
         /\ get_operand_address(Cpu, mode).outcome = "Ok"
         /\ UnindexedBase(mode).outcome = "Ok") =>
            major_cycles(Cpu, mode) =
                [outcome |-> "Ok",
                 value |-> IF HiByte(get_operand_address(Cpu, mode).value)
                                  # HiByte(UnindexedBase(mode).value)
                           THEN BaseCycles(mode) + 1
                           ELSE BaseCycles(mode)]

------------------------------------------------------------------------------
(* run_with_callback with a callback that uses its &mut CPU                *)

\* the bytes a callback writes at the program counter: NOP and INX
HookBytes == {234, 232}

\* the number of iterations of the loop that are followed
MaxCallbacks == 4

\* callback(self) with F: FnMut(&mut CPU): the callback records the CPU and
\* leaves it alone, or moves the program counter to the next byte, or
\* writes a byte at the program counter through the bus
HookCallback ==
    /\ driver.at = "callback"
    /\ Len(driver.observed) < MaxCallbacks
    /\ driver' = [driver EXCEPT !.at = "run",
                                 !.observed = Append(@, Snapshot)]
    /\ \/ UNCHANGED <<program_counter, cpu_ram>>
       \/ /\ program_counter' = WrappingAdd(program_counter, 1, U16)
          /\ UNCHANGED cpu_ram
       \/ /\ \E data \in HookBytes :
                 /\ mem_write(cpu_ram, program_counter, data).outcome = "Ok"
                 /\ cpu_ram' = mem_write(cpu_ram, program_counter, data).ram
          /\ UNCHANGED program_counter
    /\ UNCHANGED <<register_a, register_x, register_y, status,
                   stack_pointer, prg_rom, prg_rom_pages, overflow_checks,
                   outcome, last_op, last_mode, steps>>

HookNext == DriverFetch \/ HookCallback \/ DriverRunOpcode

HookSpec == DriverInit /\ [][HookNext]_vars

\* C36: in every iteration of run_with_callback the instruction executed is
\* the one encoded by the byte at the program counter held when execution
\* starts, also when the callback has changed the program counter or the
\* memory at it between the fetch and the execution.
C36_ExecutesByteAtProgramCounter ==
    [][driver.at = "run" =>
           LET decoded == from_code(mem_read(cpu_ram, program_counter).value)
           IN /\ decoded.outcome = "Ok"
              /\ last_op' = decoded.opcode[2]
              /\ last_mode' = decoded.opcode[5]]_vars

====
